---------------------------- MODULE Spec2Model ----------------------------
(***************************************************************************)
(* A model of the retrieval-augmented query system of                      *)
(* alikhan37544/Mozohack6.0-Hackathon (Frontend_Connection):               *)
(*   - populate_database.py : calculate_chunk_ids, add_to_chroma,          *)
(*                            clear_database                               *)
(*   - query_data.py        : backup_database, repair_database,            *)
(*                            reset_database, verify_database, query_rag   *)
(* Distances, importances and thresholds are fixed-point integers          *)
(* (hundredths and tenths); the threshold sequence 0.45/0.55 + k*0.1 was   *)
(* checked to hit the float literal 0.95 exactly, so the integer           *)
(* comparison "< 95" decides as the float comparison "< 0.95" does.        *)
(***************************************************************************)
EXTENDS Integers, Sequences, FiniteSets, TLC

VARIABLES
    cid,      \* calculate_chunk_ids: its input, its output, the run before
    fs,       \* the disk: the chroma directory, its files, its records, the backups
    clock,    \* time.time() in whole seconds
    sync,     \* add_to_chroma: the last run (input, outcome, records written)
    hm,       \* the health manager: the last call and what it did
    rk,       \* the filter / re-rank step of query_rag on one result list
    q,        \* query_rag: retries, position in the retry loop, call log
    web,      \* the web front end: its request handlers running side by side
    dp,       \* MedicalDocumentProcessor: files, cache, the last call
    cli       \* the command line of query_data.py: the last run and its calls

vars == <<cid, fs, clock, sync, hm, rk, q, web, dp, cli>>

(***************************************************************************)
(* Bounds of the model.                                                    *)
(***************************************************************************)
MaxChunks == 4        \* longest chunk sequence handed to calculate_chunk_ids
MaxIdRuns == 2        \* runs of calculate_chunk_ids over the same chunk objects

None == "None"        \* Python's None (no page id, no chunk id, no error)

Sources == {"a.pdf", "b.pdf"}
Pages   == {1, 2}
Texts   == {"t1", "t2"}

\* The sequences over S of length at most n.
SeqsUpTo(S, n) == UNION {[1..k -> S] : k \in 0..n}

Last(s) == s[Len(s)]

(***************************************************************************)
(* populate_database.py: calculate_chunk_ids                               *)
(***************************************************************************)
\* A langchain Document as calculate_chunk_ids sees it: metadata source, page
\* and id, and the page content.
Chunk(src, pg, txt) == [source |-> src, page |-> pg, text |-> txt, id |-> None]

\* current_page_id = f"{source}:{page}"
page_id(chunk) == chunk.source \o ":" \o ToString(chunk.page)

\* A plausible slip: the index is never reset when the page changes.
chunk_index_noreset(current_page_id, last_page_id, current_chunk_index) ==
    IF last_page_id = None THEN 0 ELSE current_chunk_index + 1

\* A plausible slip: the index is never incremented.
chunk_index_noincrement(current_page_id, last_page_id, current_chunk_index) == 0

\* if current_page_id == last_page_id: index += 1, else: index = 0
chunk_index(current_page_id, last_page_id, current_chunk_index) ==
    IF current_page_id = last_page_id THEN current_chunk_index + 1 ELSE 0

\* chunk_id = f"{current_page_id}:{current_chunk_index}"
chunk_id(current_page_id, current_chunk_index) ==
    current_page_id \o ":" \o ToString(current_chunk_index)

\* The for loop of calculate_chunk_ids from chunk i on, with the loop's two
\* locals; each chunk's metadata["id"] is overwritten in place.
RECURSIVE chunk_ids_loop(_, _, _, _)
chunk_ids_loop(chunks, i, last_page_id, current_chunk_index) ==
    IF i > Len(chunks) THEN <<>>
    ELSE LET current_page_id == page_id(chunks[i])
             idx == chunk_index(current_page_id, last_page_id, current_chunk_index)
         IN  <<[chunks[i] EXCEPT !.id = chunk_id(current_page_id, idx)]>>
                 \o chunk_ids_loop(chunks, i + 1, current_page_id, idx)

calculate_chunk_ids(chunks) == chunk_ids_loop(chunks, 1, None, 0)

\* The inputs of the chunk-id specification: every sequence of chunks, in any
\* order of sources and pages.
IdChunks == {Chunk(s, p, "t1") : s \in Sources, p \in Pages}

IdleCid == [in |-> <<>>, out |-> <<>>, prev |-> <<>>, runs |-> 0]

\* One call of calculate_chunk_ids. The first call gets the fresh chunks, a
\* later one the same chunk objects again, ids already written into them.
CalcIds ==
    /\ cid.runs < MaxIdRuns
    /\ cid' = [cid EXCEPT !.out  = calculate_chunk_ids(IF cid.runs = 0 THEN cid.in ELSE cid.out),
                          !.prev = cid.out,
                          !.runs = cid.runs + 1]
    /\ UNCHANGED <<fs, clock, sync, hm, rk, q, web, dp, cli>>

(***************************************************************************)
(* The disk. CHROMA_PATH is the store directory, BACKUP_DIR its sibling.    *)
(*   dir     : os.path.exists(CHROMA_PATH)                                  *)
(*   sqlite  : a chroma.sqlite3 file lies under CHROMA_PATH                 *)
(*   version : db_version.txt holds DB_VERSION                              *)
(*   recs    : the records of the collection, each an [id, text]            *)
(*   corrupt : the index is damaged: opening or querying the store raises   *)
(*   backups : the snapshots BACKUP_DIR/chroma_backup_<ts>, each a copy of  *)
(*             the store directory taken at second ts                       *)
(* A snapshot is kept as the records it holds. The schema.json files that   *)
(* repair_database saves and writes back are left out: no verify, reset or  *)
(* backup outcome reads them.                                               *)
(***************************************************************************)
NoStore ==
    [dir |-> FALSE, sqlite |-> FALSE, version |-> FALSE,
     recs |-> {}, corrupt |-> FALSE, backups |-> {}]

\* What shutil.copytree(CHROMA_PATH, ...) copies.
Content(f) == f.recs

\* The directory after shutil.rmtree(CHROMA_PATH): gone, with all it held.
\* A plausible slip: the records outlive the removal.
Removed_keeps_records(f) == [f EXCEPT !.dir = FALSE, !.version = FALSE]

Removed(f) == [f EXCEPT !.dir = FALSE, !.sqlite = FALSE, !.version = FALSE,
                        !.recs = {}, !.corrupt = FALSE]

\* Chroma(persist_directory=CHROMA_PATH, ...) on an undamaged store: the
\* client creates the directory and an empty chroma.sqlite3 when missing.
Opened(f) == [f EXCEPT !.dir = TRUE, !.sqlite = TRUE]

\* The ids of the stored records, as db.get(include=[])["ids"] lists them.
StoreIds(f) == {r.id : r \in f.recs}

(***************************************************************************)
(* query_data.py: backup_database                                          *)
(***************************************************************************)
KeepBackups == 5      \* "Keep only last 5 backups"

\* sorted(Path(BACKUP_DIR).glob("chroma_backup_*")): the names differ only in
\* their timestamp, a decimal of fixed width, so the order is by timestamp.
RECURSIVE SortedBackups(_)
SortedBackups(B) ==
    IF B = {} THEN <<>>
    ELSE LET first == CHOOSE b \in B : \A c \in B : b.ts <= c.ts
         IN  <<first>> \o SortedBackups(B \ {first})

\* backups[:-5] evicts nothing: a plausible slip in the retention step.
old_backups_none(backups) == <<>>

\* backups[-5:] mistaken for backups[:-5]: the newest are evicted.
old_backups_newest(backups) ==
    IF Len(backups) > KeepBackups
    THEN SubSeq(backups, KeepBackups + 1, Len(backups)) ELSE <<>>

\* if len(backups) > 5: backups[:-5]
old_backups(backups) ==
    IF Len(backups) > KeepBackups
    THEN SubSeq(backups, 1, Len(backups) - KeepBackups) ELSE <<>>

\* A plausible slip: a snapshot name is never taken.
name_taken_never(backups, now) == FALSE

\* backup_name = f"{BACKUP_DIR}/chroma_backup_{int(time.time())}" exists
name_taken(backups, now) == \E b \in backups : b.ts = now

\* backup_database() at second now. copyOk: shutil.copytree meets no I/O
\* error of its own; rmFail: which shutil.rmtree call of the eviction loop
\* raises (0: none). copytree raises when CHROMA_PATH is missing or when the
\* snapshot name exists already. Returns the disk, the boolean, whether a
\* snapshot was created and the snapshots evicted.
backup_database(f, now, copyOk, rmFail) ==
    IF ~f.dir \/ name_taken(f.backups, now) \/ ~copyOk
    THEN [fs |-> f, ret |-> FALSE, made |-> FALSE, evicted |-> {}]
    ELSE LET made    == f.backups \cup {[ts |-> now, content |-> Content(f)]}
             old     == old_backups(SortedBackups(made))
             n       == IF rmFail = 0 \/ rmFail > Len(old) THEN Len(old) ELSE rmFail - 1
             evicted == {old[i] : i \in 1..n}
         IN  [fs      |-> [f EXCEPT !.backups = made \ evicted],
              ret     |-> n = Len(old),
              made    |-> TRUE,
              evicted |-> evicted]

(***************************************************************************)
(* query_data.py: verify_database                                          *)
(***************************************************************************)
\* Directory present, chroma.sqlite3 present, and the probe
\* similarity_search_with_score("test query for verification", k=1) does not
\* raise; every exception gives False.
verify_database(f) == f.dir /\ f.sqlite /\ ~f.corrupt

(***************************************************************************)
(* query_data.py: reset_database                                           *)
(***************************************************************************)
\* reset_database(quiet). o is what the environment does:
\*   o.copyOk, o.rmFail : as for backup_database
\*   o.rmtreeOk       : shutil.rmtree(CHROMA_PATH) succeeds
\*   o.altOk          : the file-by-file removal succeeds
\*   o.mkOk           : os.makedirs and the write of db_version.txt succeed
\* Returns the disk, whether a backup was called and what it returned.
\* A plausible slip: the quiet flag is not looked at.
backs_up_always(exists, quiet) == exists

\* if os.path.exists(CHROMA_PATH): ... if not quiet: backup_database()
backs_up(exists, quiet) == exists /\ ~quiet

\* A plausible slip: the store is removed only once it has been backed up.
removes_if_backed_up(exists, quiet, backed_up) == exists /\ (quiet \/ backed_up)

\* try: shutil.rmtree(CHROMA_PATH) follows backup_database() whatever that
\* returned
removes(exists, quiet, backed_up) == exists

reset_database(f, quiet, now, o) ==
    LET bk      == IF backs_up(f.dir, quiet)
                   THEN backup_database(f, now, o.copyOk, o.rmFail)
                   ELSE [fs |-> f, ret |-> FALSE, made |-> FALSE, evicted |-> {}]
        removal == removes(f.dir, quiet, bk.ret) /\ (o.rmtreeOk \/ o.altOk)
        removed == IF removal THEN Removed(bk.fs) ELSE bk.fs
        marked  == IF o.mkOk THEN [removed EXCEPT !.dir = TRUE, !.version = TRUE]
                   ELSE removed
    IN  [fs |-> marked,
         backupCalled |-> backs_up(f.dir, quiet),
         backupRet    |-> bk.ret,
         made         |-> bk.made,
         removable    |-> o.rmtreeOk \/ o.altOk,
         deleted      |-> removal]

(***************************************************************************)
(* query_data.py: repair_database                                          *)
(***************************************************************************)
\* A plausible slip: the aggressive path reports success once it has run.
aggressive_result_always(verified) == TRUE

\* A plausible slip: the basic repair never reports success.
basic_result_never(verified) == FALSE

\* if verify_database(silent=True): return True   (after the basic repair)
basic_result(verified) == verified

\* if verify_database(silent=True): return True  else: return False
aggressive_result(verified) == verified

\* A plausible slip: recreating the directory is taken to give a store that
\* opens.
recreated_with_index(f) == Opened(f)

\* os.makedirs(CHROMA_PATH, exist_ok=True) after the reset: the directory,
\* and nothing in it that the reset did not leave.
recreated(f) == [f EXCEPT !.dir = TRUE]

\* repair_database() at second now. o is what the environment does:
\*   o.chmodOk   : every os.chmod of the first step succeeds
\*   o.fixes     : the integrity check finds the damage and VACUUM / REINDEX
\*                 cure it
\*   o.embedOk   : get_embedding_function() of the aggressive path succeeds
\*   o.mk2Ok     : os.makedirs(CHROMA_PATH, exist_ok=True) after the reset
\*   and the fields reset_database reads.
\* Returns the disk, the boolean, the results of the verify_database calls
\* made, in order, and whether reset_database was called.
repair_database(f, now, o) ==
    LET hasFiles == f.dir /\ (f.sqlite \/ f.version)
        f1 == IF f.dir /\ f.sqlite /\ f.corrupt /\ o.fixes
              THEN [f EXCEPT !.corrupt = FALSE] ELSE f
        v1 == verify_database(f1)
        \* db = Chroma(...) inside its own try: creates what is missing
        f2 == IF f1.corrupt THEN f1 ELSE Opened(f1)
        r  == reset_database(f2, TRUE, now, o)
        f3 == recreated(r.fs)
        v2 == verify_database(f3)
    IN  IF hasFiles /\ ~o.chmodOk
        THEN [fs |-> f, ret |-> FALSE, verifies |-> <<>>, reset |-> FALSE,
              backup |-> FALSE, deleted |-> FALSE]
        ELSE IF basic_result(v1)
        THEN [fs |-> f1, ret |-> TRUE, verifies |-> <<v1>>, reset |-> FALSE,
              backup |-> FALSE, deleted |-> FALSE]
        ELSE IF ~o.embedOk
        THEN [fs |-> f1, ret |-> FALSE, verifies |-> <<v1>>, reset |-> FALSE,
              backup |-> FALSE, deleted |-> FALSE]
        ELSE IF ~o.mk2Ok
        THEN [fs |-> r.fs, ret |-> FALSE, verifies |-> <<v1>>, reset |-> TRUE,
              backup |-> r.backupCalled, deleted |-> r.deleted]
        ELSE [fs |-> f3, ret |-> aggressive_result(v2), verifies |-> <<v1, v2>>,
              reset |-> TRUE, backup |-> r.backupCalled, deleted |-> r.deleted]

\* What the environment may do during one reset_database call, and during
\* one repair_database call (whose reset is quiet and makes no backup).
ResetOracles ==
    [copyOk : BOOLEAN, rmFail : 0..2, rmtreeOk : BOOLEAN, altOk : BOOLEAN,
     mkOk : BOOLEAN]
RepairOracles ==
    [copyOk : {TRUE}, rmFail : {0}, rmtreeOk : BOOLEAN, altOk : BOOLEAN,
     mkOk : BOOLEAN, chmodOk : BOOLEAN, fixes : BOOLEAN, embedOk : BOOLEAN,
     mk2Ok : BOOLEAN]

\* o sets no field that the call on disk f never reads: such a field is TRUE
\* (0 for rmFail), so that each outcome of a call is drawn once.
ResetReads(f, quiet, o) ==
    /\ (~f.dir \/ quiet) => (o.copyOk /\ o.rmFail = 0)
    /\ (f.dir /\ ~quiet /\ ~o.copyOk) => o.rmFail = 0
    /\ ~f.dir => o.rmtreeOk
    /\ (~f.dir \/ o.rmtreeOk) => o.altOk
RepairReads(f, o) ==
    LET hasFiles == f.dir /\ (f.sqlite \/ f.version)
        cured    == ~f.corrupt \/ o.fixes
        basicOk  == o.chmodOk /\ f.dir /\ f.sqlite /\ cured
    IN  /\ ~hasFiles => o.chmodOk
        /\ (~o.chmodOk \/ ~f.corrupt) => o.fixes
        /\ (~o.chmodOk \/ basicOk) => o.embedOk
        /\ (~o.chmodOk \/ basicOk \/ ~o.embedOk)
               => (o.rmtreeOk /\ o.altOk /\ o.mkOk /\ o.mk2Ok)
        /\ o.rmtreeOk => o.altOk

(***************************************************************************)
(* Exceptions. A failing operation raises at its site; the except clause   *)
(* that encloses the site catches it, and a site that no try encloses lets *)
(* it out of the function.                                                 *)
(***************************************************************************)
\* A plausible slip: the function has no try block.
handler_unguarded(fn, site) == 0

\* The line of the except clause that catches an exception raised at the
\* site of function fn; 0 when no try encloses the site.
handler(fn, site) ==
    CASE fn = "verify" /\ site \in {"open", "search"}          -> 342
      [] fn = "verify" /\ site \in {"glob", "embed"}            -> 347
      [] fn = "backup" /\ site \in {"copytree", "glob", "rmtree"} -> 145
      [] fn = "reset"  /\ site = "rmtree"                        -> 273
      [] fn = "reset"  /\ site = "alt_removal"                   -> 290
      [] fn = "reset"  /\ site = "marker"                        -> 304
      [] fn = "repair" /\ site = "chmod"                         -> 239
      [] fn = "repair" /\ site = "sqlite"                        -> 177
      [] fn = "repair" /\ site = "collection"                    -> 196
      [] fn = "repair" /\ site \in {"embed", "makedirs"}         -> 235
      [] OTHER                                                   -> 0

\* Some exception raised at one of the sites leaves its function.
Propagates(sites) == \E p \in sites : handler(p[1], p[2]) = 0

\* The sites that raise during verify_database on disk f: a damaged index
\* makes the client raise at open; probe names the site an outside failure
\* hits ("ok": none).
VerifySites(f, probe) ==
    (IF probe = "ok" THEN {} ELSE {<<"verify", probe>>})
      \cup (IF f.dir /\ f.sqlite /\ f.corrupt THEN {<<"verify", "open">>} ELSE {})

\* verify_database() with an outside failure: what it returns.
verify_call(f, probe) == VerifySites(f, probe) = {} /\ verify_database(f)

\* The sites that raise during backup_database.
BackupSites(f, now, copyOk, rmFail) ==
    (IF ~f.dir \/ (\E b \in f.backups : b.ts = now) \/ ~copyOk
     THEN {<<"backup", "copytree">>} ELSE {})
      \cup (IF rmFail # 0 THEN {<<"backup", "rmtree">>} ELSE {})

\* The sites that raise during reset_database.
ResetSites(f, quiet, now, o) ==
    (IF backs_up(f.dir, quiet) THEN BackupSites(f, now, o.copyOk, o.rmFail) ELSE {})
      \cup (IF f.dir /\ ~o.rmtreeOk THEN {<<"reset", "rmtree">>} ELSE {})
      \cup (IF f.dir /\ ~o.rmtreeOk /\ ~o.altOk THEN {<<"reset", "alt_removal">>} ELSE {})
      \cup (IF ~o.mkOk THEN {<<"reset", "marker">>} ELSE {})

\* The sites that raise during repair_database.
RepairSites(f, now, o) ==
    (IF ~o.chmodOk THEN {<<"repair", "chmod">>} ELSE {})
      \cup (IF f.corrupt /\ ~o.fixes
            THEN {<<"repair", "sqlite">>, <<"repair", "collection">>} ELSE {})
      \cup VerifySites(f, "ok")
      \cup (IF ~o.embedOk THEN {<<"repair", "embed">>} ELSE {})
      \cup (IF ~o.mk2Ok THEN {<<"repair", "makedirs">>} ELSE {})
      \cup ResetSites(f, TRUE, now, o)

\* Some file operation of a reset_database call failed.
ResetFault(o) ==
    ~(o.copyOk /\ o.rmFail = 0 /\ o.rmtreeOk /\ o.altOk /\ o.mkOk)

\* No I/O error: every file operation succeeds; VACUUM may or may not cure.
NoFault(o) ==
    /\ o.rmtreeOk /\ o.altOk /\ o.mkOk
    /\ o.chmodOk /\ o.embedOk /\ o.mk2Ok

(***************************************************************************)
(* The health manager's calls as actions.                                  *)
(***************************************************************************)
MaxClock       == 7   \* seconds the clock of the backup specification runs
MaxBackupCalls == 8   \* backup_database calls in one behaviour
MaxHealthClock == 1   \* seconds the clock of the health specification runs

\* The last health-manager call on the disk as it is (nothing else has
\* touched the disk since): which, what it returned, the results of the
\* verify_database calls it made, whether it called reset_database and
\* backup_database, whether a snapshot was created; and, counted by the backup
\* specification since its start: the backup calls (nb), whether all of them
\* met an existing store and no I/O error (clean), and the newest timestamp
\* evicted so far. About the disk the call met: whether the store directory
\* existed and whether verify_database held; about the call: whether one of
\* its file operations failed (fault); about the disk it left: whether the
\* records and the snapshots are those it met (kept), whether the snapshots
\* are (keptBackups), whether a snapshot made in this second holds the records
\* it met (saved); and whether an exception left the call (raised).
IdleHm ==
    [op |-> "none", ret |-> FALSE, verifies |-> <<>>, reset |-> FALSE,
     backup |-> FALSE, made |-> FALSE, deleted |-> FALSE,
     nb |-> 0, clean |-> TRUE, evicted |-> -1,
     existed |-> FALSE, healthy |-> FALSE, fault |-> FALSE,
     kept |-> FALSE, keptBackups |-> FALSE, saved |-> FALSE, raised |-> FALSE]

\* One record, as add_to_chroma stores it.
Rec(i, t) == [id |-> i, text |-> t]

HealthyStore ==
    [NoStore EXCEPT !.dir = TRUE, !.sqlite = TRUE,
                    !.recs = {Rec("a.pdf:1:0", "t1"), Rec("a.pdf:1:1", "t2")}]

MaxTs(B) == IF B = {} THEN -1 ELSE CHOOSE t \in {b.ts : b \in B} : \A b \in B : b.ts <= t

\* time.time() moves on by a second.
Tick(limit) ==
    /\ clock < limit
    /\ clock' = clock + 1
    /\ UNCHANGED <<cid, fs, sync, hm, rk, q, web, dp, cli>>

\* backup_database(), the calls counted.
CountedBackup ==
    /\ hm.nb < MaxBackupCalls
    /\ \E copyOk \in BOOLEAN, rmFail \in 0..2 :
         LET b == backup_database(fs, clock, copyOk, rmFail)
         IN  /\ fs' = b.fs
             /\ hm' = [IdleHm EXCEPT
                         !.op = "backup", !.ret = b.ret, !.backup = TRUE,
                         !.made = b.made,
                         !.nb = hm.nb + 1,
                         !.clean = (hm.clean /\ fs.dir /\ copyOk /\ rmFail = 0),
                         !.evicted = IF MaxTs(b.evicted) > hm.evicted
                                     THEN MaxTs(b.evicted) ELSE hm.evicted]
    /\ UNCHANGED <<cid, clock, sync, rk, q, web, dp, cli>>

\* backup_database()
Backup ==
    /\ \E copyOk \in BOOLEAN, rmFail \in 0..2 :
         LET b == backup_database(fs, clock, copyOk, rmFail)
         IN  /\ fs' = b.fs
             /\ hm' = [IdleHm EXCEPT
                         !.op = "backup", !.ret = b.ret,
                         !.backup = TRUE, !.made = b.made,
                         !.existed = fs.dir, !.fault = (~copyOk \/ rmFail # 0),
                         !.raised = Propagates(BackupSites(fs, clock, copyOk, rmFail))]
    /\ UNCHANGED <<cid, clock, sync, rk, q, web, dp, cli>>

BackupInit ==
    /\ fs = HealthyStore /\ clock = 0 /\ hm = IdleHm
    /\ cid = IdleCid /\ sync = None /\ rk = None /\ q = None
    /\ web = None /\ dp = None /\ cli = None

BackupNext == CountedBackup \/ Tick(MaxClock)

SpecBackup == BackupInit /\ [][BackupNext]_vars

(***************************************************************************)
(* calculate_chunk_ids on every chunk sequence up to MaxChunks.            *)
(***************************************************************************)
IdsInit ==
    /\ cid \in {[IdleCid EXCEPT !.in = c] : c \in SeqsUpTo(IdChunks, MaxChunks)}
    /\ fs = NoStore /\ clock = 0 /\ hm = IdleHm
    /\ sync = None /\ rk = None /\ q = None
    /\ web = None /\ dp = None /\ cli = None

IdsNext == CalcIds

SpecIds == IdsInit /\ [][IdsNext]_vars

\* Position i starts a run of chunks of one (source, page) pair.
SamePair(c, d) == c.source = d.source /\ c.page = d.page
RunStart(chunks, i) ==
    CHOOSE j \in 1..i :
        /\ \A k \in (j + 1)..i : SamePair(chunks[k], chunks[k - 1])
        /\ (j = 1 \/ ~SamePair(chunks[j], chunks[j - 1]))

\* All chunks of one (source, page) pair follow one another: the order in
\* which a loader hands over the pages of a document.
PagesContiguous(chunks) ==
    \A i, j \in 1..Len(chunks) :
        (i < j /\ SamePair(chunks[i], chunks[j]))
            => \A k \in i..j : SamePair(chunks[i], chunks[k])

ExpectedId(chunks, i) ==
    chunks[i].source \o ":" \o ToString(chunks[i].page) \o ":"
        \o ToString(i - RunStart(chunks, i))

\* C2: every chunk gets the id "source:page:index", index 0 at the first chunk
\* after the (source, page) pair changes and one more than the previous index
\* otherwise; when the pages come in order the indices within a page are
\* 0..(c - 1) in order (the index is the number of earlier chunks of the
\* page); source, page and text are left alone; and a second run over the
\* same chunks gives the same id sequence.
C2_DeterministicIds ==
    cid.runs >= 1 =>
        /\ Len(cid.out) = Len(cid.in)
        /\ \A i \in 1..Len(cid.in) :
             /\ cid.out[i] = [cid.in[i] EXCEPT !.id = ExpectedId(cid.in, i)]
             /\ PagesContiguous(cid.in) =>
                  i - RunStart(cid.in, i)
                      = Cardinality({j \in 1..(i - 1) : SamePair(cid.in[j], cid.in[i])})
        /\ cid.runs = 2 => cid.out = cid.prev

\* Two runs over a two-page document with chunk counts 2 and 1.
C2_Witness ==
    /\ cid.runs = 2
    /\ Len(cid.out) = 3
    /\ cid.out[1].id = "a.pdf:1:0"
    /\ cid.out[2].id = "a.pdf:1:1"
    /\ cid.out[3].id = "a.pdf:2:0"

\* C3 as stated: whatever the order of sources and pages, no two chunks of the
\* sequence get the same id.
C3_CollisionFreeAnyOrder ==
    cid.runs >= 1 =>
        \A i, j \in 1..Len(cid.out) : i # j => cid.out[i].id # cid.out[j].id

\* C3 amended: when all chunks of each (source, page) pair follow one another
\* in the sequence, no two chunks get the same id.
C3_CollisionFreeContiguous ==
    (cid.runs >= 1 /\ PagesContiguous(cid.in)) =>
        \A i, j \in 1..Len(cid.out) : i # j => cid.out[i].id # cid.out[j].id

\* A contiguous sequence over two pages with a page of several chunks.
C3_Witness ==
    /\ cid.runs >= 1
    /\ PagesContiguous(cid.in)
    /\ Len(cid.in) = 4
    /\ SamePair(cid.in[1], cid.in[2])
    /\ ~SamePair(cid.in[2], cid.in[3])
    /\ SamePair(cid.in[3], cid.in[4])

(***************************************************************************)
(* The health manager on a store that ingestion fills and damage hits.     *)
(***************************************************************************)
\* reset_database(quiet)
Reset ==
    /\ \E quiet \in BOOLEAN, o \in ResetOracles :
         /\ ResetReads(fs, quiet, o)
         /\ LET r == reset_database(fs, quiet, clock, o)
            IN  /\ fs' = r.fs
                /\ hm' = [IdleHm EXCEPT
                            !.op = IF quiet THEN "reset_quiet" ELSE "reset",
                            !.ret = r.backupRet, !.reset = TRUE,
                            !.backup = r.backupCalled, !.made = r.made,
                            !.deleted = r.deleted,
                            !.existed = fs.dir, !.healthy = verify_database(fs),
                            !.fault = ResetFault(o),
                            !.kept = (r.fs.recs = fs.recs /\ r.fs.backups = fs.backups),
                            !.keptBackups = (r.fs.backups = fs.backups),
                            !.saved = ([ts |-> clock, content |-> Content(fs)]
                                          \in r.fs.backups),
                            !.raised = Propagates(ResetSites(fs, quiet, clock, o))]
    /\ UNCHANGED <<cid, clock, sync, rk, q, web, dp, cli>>

\* repair_database()
Repair ==
    /\ \E o \in RepairOracles :
         /\ RepairReads(fs, o)
         /\ LET r == repair_database(fs, clock, o)
            IN  /\ fs' = r.fs
                /\ hm' = [IdleHm EXCEPT
                            !.op = "repair", !.ret = r.ret,
                            !.verifies = r.verifies, !.reset = r.reset,
                            !.backup = r.backup, !.deleted = r.deleted,
                            !.existed = fs.dir, !.healthy = verify_database(fs),
                            !.fault = ~NoFault(o),
                            !.kept = (r.fs.recs = fs.recs /\ r.fs.backups = fs.backups),
                            !.keptBackups = (r.fs.backups = fs.backups),
                            !.raised = Propagates(RepairSites(fs, clock, o))]
    /\ UNCHANGED <<cid, clock, sync, rk, q, web, dp, cli>>

\* verify_database()
Verify ==
    /\ \E probe \in {"ok", "glob", "embed", "open", "search"} :
         \* a site is hit only if the call gets to it
         /\ probe = "glob" => fs.dir
         /\ probe \in {"embed", "open", "search"} => (fs.dir /\ fs.sqlite /\ ~fs.corrupt)
         /\ hm' = [IdleHm EXCEPT
                     !.op = "verify", !.ret = verify_call(fs, probe),
                     !.verifies = <<verify_call(fs, probe)>>,
                     !.existed = fs.dir, !.healthy = verify_database(fs),
                     !.fault = (probe # "ok"),
                     !.raised = Propagates(VerifySites(fs, probe))]
    /\ UNCHANGED <<cid, fs, clock, sync, rk, q, web, dp, cli>>

\* The index file is damaged (a crash, a version change, a bad disk).
Damage ==
    /\ fs.dir /\ fs.sqlite /\ ~fs.corrupt
    /\ fs' = [fs EXCEPT !.corrupt = TRUE]
    /\ hm' = IdleHm
    /\ UNCHANGED <<cid, clock, sync, rk, q, web, dp, cli>>

\* An ingestion run from outside fills the store.
Ingest ==
    /\ ~fs.corrupt
    /\ fs' = [Opened(fs) EXCEPT !.recs = HealthyStore.recs]
    /\ hm' = IdleHm
    /\ UNCHANGED <<cid, clock, sync, rk, q, web, dp, cli>>

HealthInit ==
    /\ fs \in {NoStore, HealthyStore} /\ clock = 0 /\ hm = IdleHm
    /\ cid = IdleCid /\ sync = None /\ rk = None /\ q = None
    /\ web = None /\ dp = None /\ cli = None

HealthNext ==
    \/ Backup \/ Reset \/ Repair \/ Verify
    \/ Damage \/ Ingest \/ Tick(MaxHealthClock)

SpecHealth == HealthInit /\ [][HealthNext]_vars

\* C10: repair_database returns True only if a verify_database call made
\* inside that call, after the repair steps, returned True (the last one it
\* made); when no verify ran or the last verify failed it returns False.
C10_RepairTrueOnlyIfVerified ==
    hm.op = "repair" =>
        (hm.ret <=> (hm.verifies # <<>> /\ Last(hm.verifies)))

\* The aggressive path ran to its final verify, which failed, and the repair
\* reported failure.
C10_Witness ==
    /\ hm.op = "repair"
    /\ hm.reset
    /\ hm.verifies = <<FALSE, FALSE>>
    /\ ~hm.ret

C13_BackupBeforeDestruction ==
    /\ (hm.op = "reset" /\ hm.existed) =>
          /\ hm.backup
          /\ hm.made => hm.saved
    /\ (hm.op = "reset" /\ hm.deleted) => hm.existed
    /\ hm.op = "reset_quiet" => (~hm.backup /\ ~hm.made /\ hm.keptBackups)

C13_Witness ==
    /\ hm.op = "reset" /\ hm.existed /\ hm.deleted /\ hm.backup /\ hm.made
    /\ hm.saved /\ fs.recs = {} /\ \E b \in fs.backups : b.content # {}

\* C14: whatever the store and whichever operations fail, no exception
\* leaves verify_database, backup_database, repair_database or
\* reset_database; the first three return a boolean; a verify_database call
\* whose probe (or any step before it) raises returns False.
C14_NoExceptionPropagates ==
    hm.op # "none" =>
        /\ ~hm.raised
        /\ hm.ret \in BOOLEAN
        /\ (hm.op = "verify" /\ hm.fault) => ~hm.ret

C14_Witness ==
    /\ hm.op = "verify" /\ hm.healthy /\ hm.fault /\ ~hm.ret /\ ~hm.raised
    /\ fs.recs # {}

\* C25: whenever the verify_database after the basic repair steps fails and
\* the quiet reset_database then removes the store directory, repair_database
\* returns False: the directory made anew holds no chroma.sqlite3, which the
\* final verify_database asks for; the store is left without a record, and
\* no backup_database was called and no snapshot made during the call.
C25_AggressiveRepairFails ==
    (hm.op = "repair" /\ hm.verifies # <<>> /\ ~hm.verifies[1]
       /\ hm.reset /\ hm.deleted) =>
        /\ ~hm.ret
        /\ Len(hm.verifies) = 2 => ~hm.verifies[2]
        /\ ~fs.sqlite /\ fs.recs = {}
        /\ ~hm.backup /\ ~hm.made /\ hm.keptBackups

\* A damaged store with records that VACUUM does not cure: they are gone
\* after the repair, which reports failure.
C25_Witness ==
    /\ hm.op = "repair" /\ hm.verifies = <<FALSE, FALSE>>
    /\ hm.reset /\ hm.deleted /\ ~hm.fault
    /\ hm.existed /\ ~hm.kept /\ fs.recs = {} /\ fs.dir /\ ~hm.ret

Min(a, b) == IF a <= b THEN a ELSE b

\* C9 as stated: after n backup_database calls on an existing store (no I/O
\* error in any of them) the backups directory holds exactly min(n, 5)
\* snapshots, never more than 5, and every snapshot kept is newer than every
\* snapshot evicted.
C9_BackupRetention ==
    (hm.op = "backup" /\ hm.clean) =>
        /\ Cardinality(fs.backups) = Min(hm.nb, KeepBackups)
        /\ Cardinality(fs.backups) <= KeepBackups
        /\ \A b \in fs.backups : b.ts > hm.evicted

(***************************************************************************)
(* populate_database.py: clear_database, add_to_chroma                     *)
(***************************************************************************)
MaxSyncChunks == 3    \* longest chunk sequence handed to add_to_chroma
BatchSize     == 2    \* batch_size (50 in the source), scaled to the inputs
MaxSyncRuns   == 2    \* add_to_chroma runs in one behaviour

\* clear_database(): rmtree and makedirs; a failed removal ends the process
\* with exit(1), which the caller's "except Exception" does not catch.
\* A plausible slip: the directory is made without the old one being removed.
clear_database_keeps(f) == [f EXCEPT !.dir = TRUE]

clear_database(f) == [Removed(f) EXCEPT !.dir = TRUE]

\* A plausible slip: the batch is appended without replacing records of the
\* same id.
add_documents_append(recs, batch) ==
    recs \cup {Rec(batch[i].id, batch[i].text) : i \in 1..Len(batch)}

\* db.add_documents(batch, ids=batch_ids): the store upserts by id.
add_documents(recs, batch) ==
    {r \in recs : \A i \in 1..Len(batch) : batch[i].id # r.id}
        \cup {Rec(batch[i].id, batch[i].text) : i \in 1..Len(batch)}

\* The store refuses a batch that names one id twice.
DuplicateIds(batch) ==
    \E i, j \in 1..Len(batch) : i # j /\ batch[i].id = batch[j].id

\* A plausible slip: every chunk is taken as new.
new_chunks_all(chunks_with_ids, existing_ids) == chunks_with_ids

\* [chunk for chunk in chunks_with_ids if chunk.metadata["id"] not in existing_ids]
new_chunks_of(chunks_with_ids, existing_ids) ==
    SelectSeq(chunks_with_ids, LAMBDA c : c.id \notin existing_ids)

\* A plausible slip: a failed write undoes what the loop wrote.
on_batch_failure_rollback(written_so_far) == {}

\* The loop has no handler of its own: a write that raises leaves the
\* records of the batches before it in the store.
on_batch_failure(written_so_far) == written_so_far

\* The ids of the first n batches of chunks.
BatchIds(chunks, n) ==
    {chunks[i].id : i \in 1..Min(n * BatchSize, Len(chunks))}

\* for i in range(0, len(chunks), batch_size): db.add_documents(...), from
\* batch k on; the write of batch failAt raises (0: none does). Returns the
\* records, whether a write raised, and the batches written.
RECURSIVE add_batches(_, _, _, _)
add_batches(recs, chunks, k, failAt) ==
    IF (k - 1) * BatchSize >= Len(chunks)
    THEN [recs |-> recs, raised |-> FALSE, written |-> k - 1]
    ELSE LET batch == SubSeq(chunks, (k - 1) * BatchSize + 1,
                             Min(k * BatchSize, Len(chunks)))
         IN  IF failAt = k \/ DuplicateIds(batch)
             THEN [recs |-> on_batch_failure(recs), raised |-> TRUE, written |-> k - 1]
             ELSE add_batches(add_documents(recs, batch), chunks, k + 1, failAt)

\* What the environment may do during one add_to_chroma call:
\*   at        : where a damaged store raises: at Chroma(...) or at db.get
\*   addFail   : the batch whose write raises in the first pass (0: none)
\*   clearFail : the clear_database call whose removal fails (0: none)
\*   add2Fail  : the batch whose write raises in the rebuild (0: none)
\*   persistOk : db.persist() exists and succeeds
SyncOracles ==
    [at : {"open", "get"}, addFail : 0..2, clearFail : 0..2, add2Fail : 0..2,
     persistOk : BOOLEAN]

\* o sets no field that the call never reads (a field not read is "open", 0
\* or TRUE), so that each outcome of a call is drawn once.
SyncReads(f, chunks, o) ==
    LET firstPass == ~(f.corrupt /\ o.at = "open")
        mayRaise  == o.addFail # 0 \/ DuplicateIds(calculate_chunk_ids(chunks))
        mayRebuild == ~firstPass \/ mayRaise
    IN  /\ ~f.corrupt => o.at = "open"
        /\ (~firstPass \/ o.addFail * BatchSize >= Len(chunks) + BatchSize)
               => o.addFail = 0
        /\ ~mayRebuild => (o.add2Fail = 0 /\ o.persistOk)
        /\ o.add2Fail * BatchSize >= Len(chunks) + BatchSize => o.add2Fail = 0
        /\ (~f.corrupt /\ ~mayRebuild) => o.clearFail = 0
        /\ ~(f.corrupt /\ firstPass /\ mayRebuild) => o.clearFail # 2

\* The except branch of add_to_chroma: clear, reopen, add every chunk.
\* nclear counts the clear_database calls made before this one.
rebuild(f, chunks, o, nclear, partial, partialIds) ==
    IF f.dir /\ o.clearFail = nclear + 1
    THEN [fs |-> f, outcome |-> "exit", added |-> 0, cleared |-> nclear > 0,
          partial |-> partial, partialIds |-> partialIds, rebuilt |-> FALSE,
          rebuiltIds |-> {}]
    ELSE LET f1  == Opened(clear_database(f))
             ids == calculate_chunk_ids(chunks)
             w   == add_batches(f1.recs, ids, 1, o.add2Fail)
         IN  [fs |-> [f1 EXCEPT !.recs = w.recs],
              outcome |-> IF w.raised \/ ~o.persistOk THEN "raised" ELSE "rebuilt",
              added |-> Len(ids), cleared |-> TRUE, partial |-> partial,
              partialIds |-> partialIds, rebuilt |-> TRUE,
              rebuiltIds |-> BatchIds(ids, w.written)]

\* add_to_chroma(chunks) on disk f. Returns the disk, how the call ended
\* ("ok": no exception at all; "reset": the read of the ids failed and the
\* store was recreated; "rebuilt": the outer except rebuilt the store;
\* "raised": an exception reached the caller; "exit": exit(1)), the number of
\* chunks handed to the writer, whether the store was cleared, the batches
\* the first pass had written when it failed and the ids of their records,
\* whether the rebuild wrote and the ids of the records it wrote.
add_to_chroma(f, chunks, o) ==
    IF f.corrupt /\ o.at = "open"
    THEN rebuild(f, chunks, o, 0, 0, {})
    ELSE LET f1  == Opened(f)
             chunks_with_ids == calculate_chunk_ids(chunks)
             readFails == f.corrupt
             exits == readFails /\ o.clearFail = 1
             f2  == IF readFails THEN Opened(clear_database(f1)) ELSE f1
             new_chunks == IF readFails THEN chunks_with_ids
                           ELSE new_chunks_of(chunks_with_ids, StoreIds(f1))
             w   == add_batches(f2.recs, new_chunks, 1, o.addFail)
             f3  == [f2 EXCEPT !.recs = w.recs]
         IN  IF exits
             THEN [fs |-> f1, outcome |-> "exit", added |-> 0, cleared |-> FALSE,
                   partial |-> 0, partialIds |-> {}, rebuilt |-> FALSE,
                   rebuiltIds |-> {}]
             ELSE IF w.raised
             THEN rebuild(f3, chunks_with_ids, o, IF readFails THEN 1 ELSE 0,
                          w.written, BatchIds(new_chunks, w.written))
             ELSE [fs |-> f3, outcome |-> IF readFails THEN "reset" ELSE "ok",
                   added |-> Len(new_chunks), cleared |-> readFails, partial |-> 0,
                   partialIds |-> {}, rebuilt |-> FALSE, rebuiltIds |-> {}]

(***************************************************************************)
(* Ingestion: add_to_chroma run again and again on one chunk sequence,     *)
(* from every initial store, with damage striking in between.              *)
(***************************************************************************)
SyncChunks == {Chunk("a.pdf", 1, "t1"), Chunk("a.pdf", 2, "t1"), Chunk("a.pdf", 1, "t2")}

\* The stores an earlier ingestion may have left: records of this document,
\* with the same or another text, and of a document no longer in the input.
UniqueIds(recs) == \A r, s \in recs : r.id = s.id => r = s
InitialRecSets ==
    {S \in SUBSET {Rec(i, t) : i \in {"a.pdf:1:0", "old.pdf:1:0"}, t \in Texts} :
        UniqueIds(S)}

IdleSync(doc) ==
    [doc |-> doc, runs |-> 0, outcome |-> "none", added |-> 0, before |-> {},
     streak |-> 0, cleared |-> FALSE, partial |-> 0, partialIds |-> {},
     rebuilt |-> FALSE, rebuiltIds |-> {}]

\* add_to_chroma(chunks)
Sync ==
    /\ sync.runs < MaxSyncRuns
    /\ sync.outcome # "exit"
    /\ \E o \in SyncOracles :
         LET r == add_to_chroma(fs, sync.doc, o)
         IN  /\ SyncReads(fs, sync.doc, o)
             /\ fs' = r.fs
             /\ sync' = [sync EXCEPT
                           !.runs = sync.runs + 1, !.outcome = r.outcome,
                           !.added = r.added, !.before = fs.recs,
                           !.streak = IF r.outcome = "ok"
                                      THEN Min(sync.streak + 1, 2) ELSE 0,
                           !.cleared = r.cleared, !.partial = r.partial,
                           !.partialIds = r.partialIds, !.rebuilt = r.rebuilt,
                           !.rebuiltIds = r.rebuiltIds]
    /\ UNCHANGED <<cid, clock, hm, rk, q, web, dp, cli>>

SyncInit ==
    /\ sync \in {IdleSync(d) : d \in SeqsUpTo(SyncChunks, MaxSyncChunks)}
    /\ fs \in {NoStore} \cup
              {[NoStore EXCEPT !.dir = TRUE, !.sqlite = TRUE, !.recs = S] :
                   S \in InitialRecSets}
    /\ clock = 0 /\ hm = IdleHm /\ cid = IdleCid /\ rk = None /\ q = None
    /\ web = None /\ dp = None /\ cli = None

SyncNext == Sync \/ (Damage /\ sync.outcome # "exit")

SpecSync == SyncInit /\ [][SyncNext]_vars

\* C1: when add_to_chroma runs twice in a row on the same chunks with no
\* store error, the second run writes no record and leaves the records of the
\* store exactly as the first run left them; and the store never holds two
\* records with the same id.
C1_IdempotentIngestion ==
    /\ UniqueIds(fs.recs)
    /\ sync.streak = 2 => (sync.added = 0 /\ fs.recs = sync.before)
    /\ sync.streak >= 1 =>
         \A i \in 1..Len(sync.doc) :
             calculate_chunk_ids(sync.doc)[i].id \in StoreIds(fs)

\* A second error-free run over a three-chunk document of which the store
\* held one record before the first run.
C1_Witness ==
    /\ sync.streak = 2
    /\ Len(sync.doc) = 3
    /\ Cardinality(fs.recs) >= 3
    /\ Rec("old.pdf:1:0", "t2") \in fs.recs

\* The ids calculate_chunk_ids gives the chunks of a document.
AllIds(doc) == {calculate_chunk_ids(doc)[i].id : i \in 1..Len(doc)}

\* C15: when the read of the existing ids fails and nothing else does,
\* add_to_chroma has cleared the store and handed every input chunk to the
\* writer, and the ids of the store are exactly the ids of the input chunks.
C15_ReadFailureResets ==
    sync.outcome = "reset" =>
        /\ sync.cleared
        /\ sync.added = Len(sync.doc)
        /\ StoreIds(fs) = AllIds(sync.doc)

\* The store held a record of another document, which the reset removed.
C15_Witness ==
    /\ sync.outcome = "reset"
    /\ "old.pdf:1:0" \in {r.id : r \in sync.before}
    /\ Len(sync.doc) = 3 /\ Cardinality(StoreIds(fs)) = 3

Strangers == {r.id : r \in sync.before} \ AllIds(sync.doc)

\* A step of the last add_to_chroma run failed.
SyncFailed == sync.outcome \in {"reset", "rebuilt", "raised", "exit"}

C27_SyncAddOnly ==
    sync.outcome = "ok" =>
        LET ids == calculate_chunk_ids(sync.doc)
            old == {r.id : r \in sync.before}
        IN  /\ sync.before \subseteq fs.recs
            /\ StoreIds(fs) = old \cup AllIds(sync.doc)
            /\ sync.added = Cardinality({i \in 1..Len(ids) : ids[i].id \notin old})
            /\ ~sync.cleared

\* The store held a record under the id of the first chunk with another
\* text, and a record of a document that is not in the input: both stay.
C27_Witness ==
    /\ sync.outcome = "ok" /\ Len(sync.doc) = 3 /\ sync.added = 2
    /\ sync.doc[1].text = "t1"
    /\ {Rec("a.pdf:1:0", "t2"), Rec("old.pdf:1:0", "t1")} \subseteq sync.before
    /\ {Rec("a.pdf:1:0", "t2"), Rec("old.pdf:1:0", "t1")} \subseteq fs.recs

(***************************************************************************)
(* query_data.py: query_rag, the filter and the re-ranking of one attempt  *)
(*                                                                         *)
(* A record of the queried store is [id, text, imp, dist]: imp is its      *)
(* metadata clinical_importance in tenths (-1 when it has none), dist      *)
(* the distance of its vector from the query's in hundredths (the one      *)
(* query of a behaviour). A result is [doc, score].                        *)
(***************************************************************************)
MaxHits == 7          \* most records the queried store holds

NoImportance == -1    \* the record's metadata has no clinical_importance

Doc(i, t, imp, d) == [id |-> i, text |-> t, imp |-> imp, dist |-> d]

\* The records a store is filled from: six within the clinical cutoff, one
\* within the default cutoff only, one within reach of the relaxed cutoff,
\* two beyond the ceiling.
Corpus ==
    { Doc("m.pdf:1:0", "plain",            2,    40),
      Doc("m.pdf:1:1", "plain",            10,   50),
      Doc("m.pdf:2:0", "urgent referral",  NoImportance, 30),
      Doc("m.pdf:2:1", "plain",            20,   42),
      Doc("m.pdf:3:0", "emergency dose",   1,    44),
      Doc("m.pdf:3:1", "plain",            10,   35),
      Doc("m.pdf:4:0", "urgent referral",  5,    45),
      Doc("m.pdf:5:0", "plain",            2,    90),
      Doc("m.pdf:6:0", "emergency dose",   2,    100),
      Doc("m.pdf:7:0", "plain",            NoImportance, 120) }

\* "urgent" in s.lower() or "emergency" in s.lower(), on the texts of the model
Urgency(s) == s \in {"urgent referral", "emergency dose", "urgent: chest pain"}

\* db.similarity_search_with_score(query_text, k): the k nearest records,
\* nearest first. The distances of the corpus are pairwise distinct.
RECURSIVE Nearest(_, _)
Nearest(recs, k) ==
    IF recs = {} \/ k = 0 THEN <<>>
    ELSE LET first == CHOOSE d \in recs : \A e \in recs : d.dist <= e.dist
         IN  <<[doc |-> first, score |-> first.dist]>> \o Nearest(recs \ {first}, k - 1)

k_value(clinical_mode) == IF clinical_mode THEN 20 ELSE 15

initial_threshold(clinical_mode) == IF clinical_mode THEN 45 ELSE 55

\* A plausible slip: the cutoff excludes a result exactly at it.
filter_strict(results, threshold) ==
    SelectSeq(results, LAMBDA r : r.score < threshold)

\* [(result, score) for result, score in results if score <= threshold]
filter_results(results, threshold) ==
    SelectSeq(results, LAMBDA r : r.score <= threshold)

\* A plausible slip: a lower ceiling, 0.85.
relax_more_low(filtered_results, threshold, results) ==
    filtered_results = <<>> /\ threshold < 85 /\ results # <<>>

\* while not filtered_results and threshold < 0.95 and results
relax_more(filtered_results, threshold, results) ==
    filtered_results = <<>> /\ threshold < 95 /\ results # <<>>

\* The adaptive threshold: the filter at the initial cutoff, then the while
\* loop, threshold += 0.1 each round. Returns the final cutoff, the filtered
\* results and the rounds made.
RECURSIVE relax(_, _, _, _)
relax(results, threshold, filtered_results, steps) ==
    IF relax_more(filtered_results, threshold, results)
    THEN relax(results, threshold + 10,
               filter_results(results, threshold + 10), steps + 1)
    ELSE [threshold |-> threshold, filtered |-> filtered_results, steps |-> steps]

adaptive_filter(results, clinical_mode) ==
    relax(results, initial_threshold(clinical_mode),
          filter_results(results, initial_threshold(clinical_mode)), 0)

\* doc.metadata.get('clinical_importance', 1.0), in tenths
clinical_importance(doc) == IF doc.imp = NoImportance THEN 10 ELSE doc.imp

\* 1.5 when the query and the chunk both name an urgency term, else 1.0; in
\* tenths
semantic_boost(query_urgent, doc) ==
    IF query_urgent /\ Urgency(doc.text) THEN 15 ELSE 10

\* A plausible slip: the importance alone weighs the distance.
weighted_score_plain(score, doc, query_urgent) ==
    score * clinical_importance(doc) * semantic_boost(query_urgent, doc)

\* weighted_score = score * (1 + clinical_importance) * semantic_boost, in
\* ten-thousandths
weighted_score(score, doc, query_urgent) ==
    score * (10 + clinical_importance(doc)) * semantic_boost(query_urgent, doc)

weigh(results, query_urgent) ==
    [i \in 1..Len(results) |->
        [doc |-> results[i].doc,
         score |-> weighted_score(results[i].score, results[i].doc, query_urgent)]]

\* list.sort(key=lambda x: x[1]): stable, ascending. Insertion of x behind
\* every element that is not greater.
RECURSIVE insert_sorted(_, _)
insert_sorted(sorted, x) ==
    IF sorted = <<>> THEN <<x>>
    ELSE IF Last(sorted).score <= x.score THEN Append(sorted, x)
    ELSE Append(insert_sorted(SubSeq(sorted, 1, Len(sorted) - 1), x), Last(sorted))

RECURSIVE sort_by_score(_)
sort_by_score(s) ==
    IF s = <<>> THEN <<>>
    ELSE insert_sorted(sort_by_score(SubSeq(s, 1, Len(s) - 1)), Last(s))

\* A plausible slip: the cut takes the last five.
top_results_last(weighted_results) ==
    SubSeq(weighted_results, Len(weighted_results) - Min(5, Len(weighted_results)) + 1,
           Len(weighted_results))

\* context_docs = weighted_results[:5]
top_results(weighted_results) ==
    SubSeq(weighted_results, 1, Min(5, Len(weighted_results)))

\* Lines 408-446 of one attempt on the raw results: the outcome ("no_results"
\* or "context"), the final cutoff, the filtered and the weighted results and
\* the context documents.
\* a is what the adaptive filter gave and w the weighted results in order.
ranked(a, w) ==
    [outcome   |-> IF a.filtered = <<>> THEN "no_results" ELSE "context",
     threshold |-> a.threshold,
     steps     |-> a.steps,
     filtered  |-> a.filtered,
     weighted  |-> IF a.filtered = <<>> THEN <<>> ELSE w,
     context   |-> IF a.filtered = <<>> THEN <<>> ELSE top_results(w)]

\* The member of a set of one: what a call gave, worked out once.
The(S) == CHOOSE x \in S : TRUE

rank(results, query_urgent, clinical_mode) ==
    The({ranked(a, sort_by_score(weigh(a.filtered, query_urgent))) :
           a \in {adaptive_filter(results, clinical_mode)}})

IdleRk(recs, query_urgent, clinical_mode) ==
    [recs |-> recs, urgent |-> query_urgent, clinical |-> clinical_mode,
     done |-> FALSE, results |-> <<>>,
     out |-> [outcome |-> "none", threshold |-> 0, steps |-> 0, filtered |-> <<>>,
              weighted |-> <<>>, context |-> <<>>]]

\* The search and lines 408-446 on the store rk.recs.
Rank ==
    /\ ~rk.done
    /\ LET results == Nearest(rk.recs, k_value(rk.clinical))
       IN  rk' = [rk EXCEPT !.done = TRUE, !.results = results,
                            !.out = rank(results, rk.urgent, rk.clinical)]
    /\ UNCHANGED <<cid, fs, clock, sync, hm, q, web, dp, cli>>

RankInit ==
    /\ rk \in {IdleRk(S, u, c) :
                 S \in {T \in SUBSET Corpus : Cardinality(T) <= MaxHits},
                 u \in BOOLEAN, c \in BOOLEAN}
    /\ fs = NoStore /\ clock = 0 /\ hm = IdleHm /\ cid = IdleCid
    /\ sync = None /\ q = None
    /\ web = None /\ dp = None /\ cli = None

RankNext == Rank

SpecRank == RankInit /\ [][RankNext]_vars

\* C4 as stated: whenever the store holds at least one record the adaptive
\* filter ends with a non-empty filtered set, from either initial cutoff; the
\* no-results outcome comes only from a store with zero records.
C4_NonEmptyUnlessStoreEmpty ==
    (rk.done /\ rk.recs # {}) =>
        (rk.out.filtered # <<>> /\ rk.out.outcome # "no_results")

\* C4 amended: the adaptive filter makes at most 5 relaxation steps and never
\* passes the cutoff 0.95; it ends with a non-empty filtered set exactly when
\* some retrieved result lies within 0.95, and with the no-results outcome
\* exactly when none does: a store with zero records, or one whose every
\* retrieved record is farther than 0.95 from the query.
C4_NonEmptyIffWithinCeiling ==
    rk.done =>
        /\ rk.out.steps <= 5
        /\ rk.out.threshold <= 95
        /\ (rk.out.filtered # <<>>)
               <=> (\E i \in 1..Len(rk.results) : rk.results[i].score <= 95)
        /\ (rk.out.outcome = "no_results") <=> (rk.out.filtered = <<>>)
        /\ rk.recs = {} => rk.out.outcome = "no_results"
        /\ \A i \in 1..Len(rk.out.filtered) :
               rk.out.filtered[i].score <= rk.out.threshold

\* A store of two records, both beyond the ceiling: five relaxation steps in
\* clinical mode, then the no-results outcome.
C4_Witness ==
    /\ rk.done
    /\ rk.clinical
    /\ Cardinality(rk.recs) = 2
    /\ rk.out.steps = 5
    /\ rk.out.outcome = "no_results"

\* C5: each filtered result is weighed distance x (1 + clinical importance,
\* 1.0 when absent) x boost, boost 1.5 when query and chunk both name an
\* urgency term and 1.0 otherwise; the weighted list is ascending and the
\* context is its first min(5, n) entries in that order; for the distances
\* 0.50 and 0.40 with importances 1.0 and 0.2 the chunk at 0.40 comes first
\* (weights 1.00 and 0.48).
C5_ReRanking ==
    (rk.done /\ rk.out.outcome = "context") =>
        LET f == rk.out.filtered
            w == rk.out.weighted
            c == rk.out.context
        IN  /\ Len(w) = Len(f)
            /\ \A i \in 1..Len(f) : \E j \in 1..Len(w) :
                 /\ w[j].doc = f[i].doc
                 /\ w[j].score =
                      f[i].score
                        * (10 + (IF f[i].doc.imp = NoImportance THEN 10 ELSE f[i].doc.imp))
                        * (IF rk.urgent /\ Urgency(f[i].doc.text) THEN 15 ELSE 10)
            /\ \A i, j \in 1..Len(w) : i < j => w[i].score <= w[j].score
            /\ Len(c) = Min(5, Len(f))
            /\ \A i \in 1..Len(c) : c[i] = w[i]
            /\ {f[i].doc.id : i \in 1..Len(f)} = {"m.pdf:1:0", "m.pdf:1:1"} =>
                 /\ c[1].doc.dist = 40 /\ c[1].score = 4800
                 /\ c[2].doc.dist = 50 /\ c[2].score = 10000

\* An urgent query with seven results within the cutoff: a boosted chunk is
\* cut from the context of five.
C5_Witness ==
    /\ rk.done
    /\ rk.urgent
    /\ Len(rk.out.filtered) = 7
    /\ Len(rk.out.context) = 5
    /\ \E i \in 1..Len(rk.out.weighted) :
         /\ i > 5
         /\ Urgency(rk.out.weighted[i].doc.text)

\* The results of a list that pass the initial cutoff of a mode.
PassInitial(results, clinical_mode) ==
    LET kept == filter_results(results, initial_threshold(clinical_mode))
    IN  {kept[i] : i \in 1..Len(kept)}

\* C18 as stated: of every retrieved list, the results that pass the initial
\* cutoff in clinical mode include those that pass it in default mode.
C18_ClinicalMorePermissive ==
    rk.done => PassInitial(rk.results, FALSE) \subseteq PassInitial(rk.results, TRUE)

(***************************************************************************)
(* The re-ranking on result lists in which two results lie at the same     *)
(* distance: the search returns them in either order.                      *)
(***************************************************************************)
MaxFillers == 4       \* results that come with the pair

PairDistances   == {0, 5, 30}
PairImportances == {NoImportance, 1, 2, 20}
PairTexts       == {"plain", "urgent referral"}

Filler(i) == Doc(<<"f.pdf", i>>, "plain", 1, 10)

\* The raw results: the pair and n fillers, nearest first, the pair in the
\* order the search gives it.
PairResults(a, b, n) ==
    LET pair    == <<[doc |-> a, score |-> a.dist], [doc |-> b, score |-> b.dist]>>
        fillers == [i \in 1..n |-> [doc |-> Filler(i), score |-> Filler(i).dist]]
    IN  IF a.dist <= 10 THEN pair \o fillers ELSE fillers \o pair

\* Lines 408-446 on the raw results rk.results.
RankPair ==
    /\ ~rk.done
    /\ rk' = [rk EXCEPT !.done = TRUE,
                        !.out = rank(rk.results, rk.urgent, rk.clinical)]
    /\ UNCHANGED <<cid, fs, clock, sync, hm, q, web, dp, cli>>

PairInit ==
    /\ rk \in {[IdleRk({}, u, c) EXCEPT
                    !.results = PairResults(Doc(<<"p.pdf", 1>>, ta, ia, d),
                                            Doc(<<"p.pdf", 2>>, tb, ib, d), n)] :
                 ta \in PairTexts, ia \in PairImportances,
                 tb \in PairTexts, ib \in PairImportances,
                 d \in PairDistances,
                 n \in {0, MaxFillers}, u \in BOOLEAN, c \in BOOLEAN}
    /\ fs = NoStore /\ clock = 0 /\ hm = IdleHm /\ cid = IdleCid
    /\ sync = None /\ q = None
    /\ web = None /\ dp = None /\ cli = None

PairNext == RankPair

SpecPair == PairInit /\ [][PairNext]_vars

\* Where a document stands in a ranked list (0: not in it).
Position(list, doc) ==
    IF \E i \in 1..Len(list) : list[i].doc = doc
    THEN CHOOSE i \in 1..Len(list) : list[i].doc = doc ELSE 0

\* x is ranked behind y: a higher weighted score, a later place, and cut from
\* the context whenever y is.
RankedBehind(out, x, y) ==
    LET px == Position(out.weighted, x)
        py == Position(out.weighted, y)
    IN  /\ out.weighted[px].score > out.weighted[py].score
        /\ px > py
        /\ Position(out.context, y) = 0 => Position(out.context, x) = 0

\* Two filtered results at the same distance of which x is to come behind
\* y: the same boost and x the more important, or, for an urgent query, the
\* same importance and x the one with an urgency term.
Outweighs(query_urgent, x, y) ==
    /\ x.dist = y.dist
    /\ \/ /\ semantic_boost(query_urgent, x) = semantic_boost(query_urgent, y)
          /\ clinical_importance(x) > clinical_importance(y)
       \/ /\ query_urgent /\ Urgency(x.text) /\ ~Urgency(y.text)
          /\ clinical_importance(x) = clinical_importance(y)

FilteredDocs(out) == {out.filtered[i].doc : i \in 1..Len(out.filtered)}

\* C24 as stated: of two filtered results with the same raw distance and
\* the same boost, the one with the higher clinical importance has the higher
\* weighted score and is ranked later, and is cut from the context first;
\* for an urgent query a chunk with an urgency term is ranked after an
\* otherwise equal chunk without one.
C24_RankingDirection ==
    (rk.done /\ rk.out.outcome = "context") =>
        \A x, y \in FilteredDocs(rk.out) :
            Outweighs(rk.urgent, x, y) => RankedBehind(rk.out, x, y)

\* C24 amended: the same, for two results whose common raw distance is
\* greater than zero.
C24_RankingDirectionPositive ==
    (rk.done /\ rk.out.outcome = "context") =>
        \A x, y \in FilteredDocs(rk.out) :
            (Outweighs(rk.urgent, x, y) /\ x.dist > 0) => RankedBehind(rk.out, x, y)

\* Six results, the pair nearest and first in the raw list with the more
\* important one ahead: the re-ranking puts it last and cuts it.
C24_Witness ==
    /\ rk.done /\ Len(rk.out.weighted) = 6
    /\ \E x, y \in FilteredDocs(rk.out) :
         /\ Outweighs(rk.urgent, x, y) /\ x.dist > 0
         /\ clinical_importance(x) > clinical_importance(y)
         /\ Position(rk.results, x) = 1
         /\ Position(rk.out.weighted, x) = 6
         /\ Position(rk.out.context, x) = 0

\* The results of a list at or below a cutoff.
Within(results, cutoff) == {i \in 1..Len(results) : results[i].score <= cutoff}

\* C22: the filtered results are exactly the results at or below the final
\* cutoff, in their order; the cutoff starts at the mode's initial value and
\* is raised by 0.1 per round, a round being made only while nothing has
\* passed, the raw list is non-empty and the cutoff is below 0.95: it never
\* exceeds 0.95, never decreases, and is not raised once a result passes.
C22_RelaxationMechanics ==
    rk.done =>
        LET init == initial_threshold(rk.clinical)
            t    == rk.out.threshold
        IN  /\ Len(rk.out.filtered) = Cardinality(Within(rk.results, t))
            /\ \A i \in 1..Len(rk.out.filtered) :
                 /\ rk.out.filtered[i].score <= t
                 /\ \E j \in 1..Len(rk.results) : rk.results[j] = rk.out.filtered[i]
            /\ \A i, j \in 1..Len(rk.out.filtered) :
                 i < j => rk.out.filtered[i].score <= rk.out.filtered[j].score
            /\ t = init + 10 * rk.out.steps
            /\ t >= init /\ t <= 95
            /\ rk.out.steps > 0 =>
                 /\ rk.results # <<>>
                 /\ Within(rk.results, t - 10) = {}
                 /\ t - 10 < 95
            /\ (rk.out.filtered = <<>> /\ rk.results # <<>>) => t = 95

\* Nothing passes the default cutoff until the fourth round, at 0.95.
C22_Witness ==
    /\ rk.done /\ ~rk.clinical
    /\ rk.out.steps = 4 /\ rk.out.threshold = 95
    /\ Len(rk.out.filtered) = 1 /\ Len(rk.results) > 1

(***************************************************************************)
(* query_data.py: query_rag, the retry loop                                *)
(*                                                                         *)
(* An exception is kept as the kind of its message:                        *)
(*   "type"          a store error whose text holds "KeyError: '_type'"    *)
(*   "store_named"   a store error whose text names "database" or "chroma" *)
(*   "store_unnamed" a store error whose text names neither                *)
(*   "repair_failed" "Database repair failed for '_type' error. Please     *)
(*                   reset database."                                      *)
(*   "timeout"       "Model response timed out. Try a more specific query."*)
(*   "model"         any other error of model.invoke                       *)
(***************************************************************************)
MaxRetries == 2       \* largest max_retries a query is made with

StoreErrors == {"type", "store_named", "store_unnamed"}

\* A plausible slip: no error is taken for a store error.
names_database_never(kind) == FALSE

\* "database" in last_error.lower() or "chroma" in last_error.lower()
names_database(kind) == kind \in {"store_named", "repair_failed"}

\* A plausible slip: one attempt fewer.
may_retry_strict(retries, max_retries) == retries < max_retries

\* while retries <= max_retries / if retries <= max_retries
may_retry(retries, max_retries) == retries <= max_retries

\* A plausible slip: an empty result set raises like any other failure.
no_results_raises == [pc |-> "except", outcome |-> "none", err |-> "model"]

\* if not results: return "No relevant medical information found ..."
no_results_return == [pc |-> "returned", outcome |-> "no_results", err |-> None]

\* What the environment may do during one attempt: the kind of error a
\* damaged store raises and where (at Chroma(...) or at the search), what
\* model.invoke does, and what a repair_database call meets.
AttemptOracles ==
    [kind : StoreErrors, at : {"open", "search"}, gen : {"ok", "timeout", "model"}]

\* The repair oracle of a pass that makes no repair_database call.
NoRepair ==
    [copyOk |-> TRUE, rmFail |-> 0, rmtreeOk |-> TRUE, altOk |-> TRUE, mkOk |-> TRUE,
     chmodOk |-> TRUE, fixes |-> TRUE, embedOk |-> TRUE, mk2Ok |-> TRUE]

\* The state of one query_rag call: where it stands (pc), its arguments, the
\* retries counted, the exception being handled (err) and the last one
\* handled, what it gave the caller (outcome, and the count named in the
\* terminal error), what the filter of the last pass gave (ranked) and the
\* rounds its relaxation loop made (steps), the errors its passes raised,
\* and the events so far.
IdleQ(n, clinical_mode, query_urgent) ==
    [pc |-> "try", max_retries |-> n, clinical |-> clinical_mode,
     urgent |-> query_urgent, retries |-> 0, err |-> None, last_error |-> None,
     outcome |-> "none", ranked |-> "none", steps |-> 0, after |-> -1,
     errs |-> <<>>, log |-> <<>>]

\* db = Chroma(...) and its handler for KeyError '_type' (lines 369-384),
\* rep being what the repair_database call of that handler gives.
open_result(f, o, rep) ==
    IF ~(f.corrupt /\ o.at = "open")
    THEN [opened |-> TRUE, fs |-> Opened(f), err |-> None, log |-> <<>>]
    ELSE IF o.kind # "type"
    THEN [opened |-> FALSE, fs |-> f, err |-> o.kind, log |-> <<>>]
    ELSE IF rep.ret
    THEN [opened |-> TRUE, fs |-> Opened(rep.fs), err |-> None,
          log |-> <<"open_repair_ok">>]
    ELSE [opened |-> FALSE, fs |-> rep.fs, err |-> "repair_failed",
          log |-> <<"open_repair_failed">>]

open_store(f, now, o, ro) == open_result(f, o, repair_database(f, now, ro))

\* The rest of the try block (lines 386-517), op being what opening the
\* store gave and r what filtering and ranking the search results gives.
after_search(qs, o, op, r) ==
    IF ~op.opened
    THEN [fs |-> op.fs, gen |-> FALSE,
          q |-> [qs EXCEPT !.pc = "except", !.ranked = "none", !.steps = 0,
                           !.err = op.err,
                           !.errs = Append(qs.errs, op.err),
                           !.log = qs.log \o <<"attempt">> \o op.log \o <<"fail">>]]
    ELSE IF op.fs.corrupt
    THEN [fs |-> op.fs, gen |-> FALSE,
          q |-> [qs EXCEPT !.pc = "except", !.ranked = "none", !.steps = 0,
                           !.err = o.kind,
                           !.errs = Append(qs.errs, o.kind),
                           !.log = qs.log \o <<"attempt">> \o op.log \o <<"fail">>]]
    ELSE IF r.outcome = "no_results"
    THEN [fs |-> op.fs, gen |-> FALSE,
          q |-> [qs EXCEPT !.pc = no_results_return.pc,
                           !.outcome = no_results_return.outcome,
                           !.err = no_results_return.err,
                           !.ranked = "no_results", !.steps = r.steps,
                           !.log = qs.log \o <<"attempt">> \o op.log
                                          \o <<"no_results">>]]
    ELSE IF o.gen = "ok"
    THEN [fs |-> op.fs, gen |-> TRUE,
          q |-> [qs EXCEPT !.pc = "returned", !.outcome = "answer",
                           !.ranked = "context", !.steps = r.steps,
                           !.log = qs.log \o <<"attempt">> \o op.log
                                          \o <<"generate", "answer">>]]
    ELSE [fs |-> op.fs, gen |-> TRUE,
          q |-> [qs EXCEPT !.pc = "except", !.ranked = "context", !.steps = r.steps,
                           !.err = o.gen,
                           !.errs = Append(qs.errs, o.gen),
                           !.log = qs.log \o <<"attempt">> \o op.log
                                          \o <<"generate", "fail">>]]

search_and_answer(qs, o, op) ==
    The({after_search(qs, o, op, r) :
           r \in {rank(results, qs.urgent, qs.clinical) :
                    results \in {Nearest(op.fs.recs, k_value(qs.clinical))}}})

\* One pass through the try block of query_rag (lines 367-517) on disk f
\* for the query state qs: the disk and the query state it leaves, and
\* whether model.invoke was called.
try_block(f, now, qs, o, ro) ==
    The({search_and_answer(qs, o, op) : op \in {open_store(f, now, o, ro)}})

\* The except block (lines 519-534), rep being what its repair_database
\* call gives.
except_result(f, now, qs, rep) ==
    LET retries == qs.retries + 1
        again   == may_retry(retries, qs.max_retries)
        repairs == again /\ names_database(qs.err)
    IN  [fs |-> IF repairs THEN rep.fs ELSE f,
         clock |-> IF again THEN now + 1 ELSE now,
         q |-> [qs EXCEPT
                  !.retries = retries, !.last_error = qs.err, !.err = None,
                  !.pc = IF again THEN "try" ELSE "raised",
                  !.outcome = IF again THEN "none" ELSE "error",
                  !.after = IF again THEN -1 ELSE qs.max_retries,
                  !.log = qs.log \o
                          (IF ~again THEN <<"raise">>
                           ELSE IF ~repairs THEN <<"sleep">>
                           ELSE IF rep.ret THEN <<"sleep", "repair_ok">>
                           ELSE <<"sleep", "repair_failed">>)]]

\* The except block of query_rag: the disk, the query state and the clock
\* it leaves.
except_block(f, now, qs, ro) ==
    except_result(f, now, qs, repair_database(f, now + 1, ro))

\* Each outcome of a pass is drawn once: a field of the oracles that the
\* pass does not read holds its first value.
TryReads(f, qs, o, ro) ==
    LET typeErr == f.corrupt /\ o.at = "open" /\ o.kind = "type"
    IN  /\ ~f.corrupt => (o.kind = "type" /\ o.at = "open")
        /\ typeErr => RepairReads(f, ro)
        /\ ~typeErr => ro = NoRepair
        /\ ~try_block(f, 0, qs, o, ro).gen => o.gen = "ok"
ExceptReads(f, qs, ro) ==
    IF may_retry(qs.retries + 1, qs.max_retries) /\ names_database(qs.err)
    THEN RepairReads(f, ro) ELSE ro = NoRepair

\* query_rag enters or re-enters its while loop.
Attempt ==
    /\ q.pc = "try"
    /\ may_retry(q.retries, q.max_retries)
    /\ \E o \in AttemptOracles, ro \in RepairOracles :
         /\ TryReads(fs, q, o, ro)
         /\ LET a == try_block(fs, clock, q, o, ro)
            IN  fs' = a.fs /\ q' = a.q
    /\ UNCHANGED <<cid, clock, sync, hm, rk, web, dp, cli>>

\* query_rag catches the exception of the pass.
Handle ==
    /\ q.pc = "except"
    /\ \E ro \in RepairOracles :
         /\ ExceptReads(fs, q, ro)
         /\ LET a == except_block(fs, clock, q, ro)
            IN  fs' = a.fs /\ q' = a.q /\ clock' = a.clock
    /\ UNCHANGED <<cid, sync, hm, rk, web, dp, cli>>

\* The stores a query meets: none, an empty one, one with records near the
\* query, one whose only records are far from it; each sound or damaged.
QueryStores ==
    {NoStore}
      \cup {[NoStore EXCEPT !.dir = TRUE, !.sqlite = TRUE, !.recs = S, !.corrupt = c] :
               S \in {{}, {Doc("m.pdf:1:0", "plain", 2, 40),
                           Doc("m.pdf:2:0", "urgent referral", NoImportance, 30)},
                          {Doc("m.pdf:7:0", "plain", NoImportance, 120)}},
               c \in BOOLEAN}

QueryInit ==
    /\ fs \in QueryStores
    /\ q \in {IdleQ(n, c, u) : n \in 0..MaxRetries, c \in BOOLEAN, u \in BOOLEAN}
    /\ clock = 0 /\ hm = IdleHm /\ cid = IdleCid /\ sync = None /\ rk = None
    /\ web = None /\ dp = None /\ cli = None

QueryNext == Attempt \/ Handle

SpecQuery == QueryInit /\ [][QueryNext]_vars

Count(log, e) == Cardinality({i \in 1..Len(log) : log[i] = e})

\* The events of the last pass: the log from its last "attempt" on.
LastPass(log) ==
    LET starts == {i \in 1..Len(log) : log[i] = "attempt"}
    IN  IF starts = {} THEN <<>>
        ELSE SubSeq(log, CHOOSE i \in starts : \A j \in starts : j <= i, Len(log))

Events(log) == {log[i] : i \in 1..Len(log)}

\* C6 as stated: for every query with limit max_retries = n, the pipeline is
\* attempted no more than n times.
C6_AtMostNAttempts == Count(q.log, "attempt") <= q.max_retries

\* C6, amended: the pipeline is attempted at most n + 1 times (a first pass
\* and at most n retries); the terminal error is raised exactly when n + 1
\* passes have failed, once, and it reports the count n and the error of
\* the last pass.
C6_AtMostNPlusOneAttempts ==
    /\ Count(q.log, "attempt") <= q.max_retries + 1
    /\ q.retries = Len(q.errs) - (IF q.pc = "except" THEN 1 ELSE 0)
    /\ (Len(q.errs) = q.max_retries + 1 /\ q.pc # "except") => q.pc = "raised"
    /\ q.pc = "raised" =>
          /\ Count(q.log, "attempt") = q.max_retries + 1
          /\ Len(q.errs) = q.max_retries + 1
          /\ Count(q.log, "raise") = 1 /\ Last(q.log) = "raise"
          /\ q.outcome = "error"
          /\ q.after = q.max_retries
          /\ q.last_error = Last(q.errs)

C6_Witness ==
    /\ q.pc = "raised" /\ q.max_retries = MaxRetries
    /\ Count(q.log, "attempt") = MaxRetries + 1
    /\ q.errs[1] # Last(q.errs)

\* C7 as stated: when a pass fails with a store error, a repair is
\* attempted before the error reaches the caller; after a repair that
\* succeeds the query is retried; after a repair that fails no further pass
\* is made.
C7_RepairBeforeSurfacing ==
    /\ (q.pc = "raised" /\ q.last_error \in StoreErrors \cup {"repair_failed"})
          => Events(LastPass(q.log)) \cap
               {"open_repair_ok", "open_repair_failed", "repair_ok", "repair_failed"} # {}
    /\ \A i \in 1..Len(q.log) :
          /\ q.log[i] \in {"open_repair_failed", "repair_failed"}
                => \A j \in i..Len(q.log) : q.log[j] # "attempt"
          /\ q.log[i] = "repair_ok"
                => IF i = Len(q.log) THEN q.pc = "try" ELSE q.log[i + 1] = "attempt"

\* C8: when the filter of a pass leaves no result, query_rag returns the
\* no-results message from that pass: the pass neither calls the model nor
\* fails nor reaches the except block (no sleep, no repair, no retry
\* counted), and nothing follows it. A query that returns from an empty
\* store returns this message.
C8_NoResultsIsTerminal ==
    /\ q.ranked = "no_results" =>
          /\ q.pc = "returned" /\ q.outcome = "no_results"
          /\ Last(q.log) = "no_results"
          /\ Events(LastPass(q.log)) \subseteq {"attempt", "open_repair_ok", "no_results"}
          /\ q.retries = Len(q.errs) /\ q.retries = Count(q.log, "sleep")
    /\ (q.pc = "returned" /\ fs.recs = {}) => q.outcome = "no_results"

C8_Witness ==
    /\ q.outcome = "no_results" /\ q.pc = "returned"
    /\ fs.recs = {} /\ ~q.clinical
    /\ q.retries = 1 /\ q.max_retries = 1

\* The positions of the failed passes in a log; the k-th of them ends the
\* pass that raised errs[k].
Fails(log) == {i \in 1..Len(log) : log[i] = "fail"}
FailNo(log, i) == Cardinality({j \in Fails(log) : j <= i})

\* C23: when a pass fails with an error whose message names "database" or
\* "chroma" and another pass is still allowed, what follows the failed pass
\* is the backoff sleep, then one repair_database call (whatever it returns),
\* then the next pass; no pass starts in between, and the next pass starts
\* only once the handler, with its repair, is through.
C23_RepairPrecedesRetry ==
    \A i \in Fails(q.log) :
        LET k == FailNo(q.log, i)
        IN  (/\ q.errs[k] \in {"store_named", "repair_failed"}
             /\ k <= q.max_retries
             /\ ~(i = Len(q.log) /\ q.pc = "except"))
            => /\ Len(q.log) >= i + 2
               /\ q.log[i + 1] = "sleep"
               /\ q.log[i + 2] \in {"repair_ok", "repair_failed"}
               /\ IF Len(q.log) = i + 2 THEN q.pc = "try"
                  ELSE q.log[i + 3] = "attempt"

\* A pass failed on a store error that names the database, the handler slept
\* and repaired, and the next pass has started.
C23_Witness ==
    \E i \in Fails(q.log) :
        /\ q.errs[FailNo(q.log, i)] = "store_named"
        /\ Len(q.log) >= i + 3
        /\ q.log[i + 1] = "sleep" /\ q.log[i + 2] = "repair_failed"
        /\ q.log[i + 3] = "attempt"

(***************************************************************************)
(* app.py: the web front end. The development server of app.run() serves   *)
(* each request on a thread of its own, and no handler takes a lock: a     *)
(* handler is a sequence of steps on the store, and the steps of handlers  *)
(* running side by side interleave freely.                                 *)
(*   upload_document : add_to_chroma (Chroma(...), db.get, add_documents); *)
(*                     inside it, on an error, clear_database and a        *)
(*                     rebuild; on an error leaving it, reset_database     *)
(*                     and add_to_chroma once more                         *)
(*   reset_db        : clear_database (rmtree, makedirs), then             *)
(*                     add_to_chroma when a rebuild is asked for           *)
(*   api_query       : query_rag (Chroma(...), the search; on an error a   *)
(*                     retry, after repair_database when the message       *)
(*                     names the database)                                 *)
(***************************************************************************)
MaxThreads  == 2      \* requests served side by side
MaxRequests == 3      \* requests in one behaviour

Threads == 1..MaxThreads

WebMaxRetries == 1    \* query_rag(...) as app.py calls it: max_retries=1

IdleThread ==
    [req |-> "none", pc |-> "idle", stage |-> 0, began |-> FALSE, retries |-> 0,
     rebuild |-> FALSE]

\* The chunk an upload brings.
Uploaded == <<[id |-> "w.pdf:1:0", text |-> "t1"]>>

\* The client of a thread finds its store gone or damaged.
StoreGone(f) == ~f.dir \/ ~f.sqlite \/ f.corrupt

\* The thread's handler changes the store.
Mutating(t) == web.th[t].req \in {"upload", "reset"} \/ web.th[t].pc = "repair"

\* Thread t takes a step on the store and goes on as thread record nt:
\* noted are a step taken while another thread is between the rmtree and
\* the makedirs of a reset, and a step of a mutating handler taken while
\* another mutating handler is under way.
Step(t, nt) ==
    [web EXCEPT
       !.th[t] = nt,
       !.during_reset = @ \/ \E u \in Threads \ {t} : web.th[u].pc = "makedirs",
       !.interleaved  = @ \/ (Mutating(t) /\ \E u \in Threads \ {t} :
                                               web.th[u].began /\ Mutating(u))]

\* A request arrives and a free thread takes it.
Request ==
    /\ web.served < MaxRequests
    /\ \E t \in Threads, kind \in {"upload", "reset", "reset_rebuild", "query"} :
         /\ web.th[t].pc = "idle"
         /\ web' = [web EXCEPT
                      !.served = @ + 1,
                      !.th[t] = CASE kind = "upload" ->
                                       [IdleThread EXCEPT !.req = "upload", !.pc = "open"]
                                  [] kind = "reset" ->
                                       [IdleThread EXCEPT !.req = "reset", !.pc = "rmtree"]
                                  [] kind = "reset_rebuild" ->
                                       [IdleThread EXCEPT !.req = "reset", !.pc = "rmtree",
                                                          !.rebuild = TRUE]
                                  [] kind = "query" ->
                                       [IdleThread EXCEPT !.req = "query", !.pc = "qopen"]]
    /\ UNCHANGED <<cid, fs, clock, sync, hm, rk, q, dp, cli>>

\* Where an error inside add_to_chroma sends the thread: the first one to
\* clear_database and the rebuild (stage 1); one leaving add_to_chroma sends
\* upload_document to reset_database and a last add_to_chroma (stage 2) and
\* ends reset_db; an error of that last add_to_chroma ends the request.
sync_failed(th) ==
    IF th.stage = 0 THEN [th EXCEPT !.pc = "rmtree", !.stage = 1, !.began = TRUE]
    ELSE IF th.stage = 1 /\ th.req = "upload"
    THEN [th EXCEPT !.pc = "rmtree", !.stage = 2, !.began = TRUE]
    ELSE IdleThread

\* db = Chroma(persist_directory=CHROMA_PATH, ...) in add_to_chroma
SyncOpen ==
    /\ \E t \in Threads :
         /\ web.th[t].pc = "open"
         /\ fs' = IF fs.corrupt THEN fs ELSE Opened(fs)
         /\ web' = Step(t, IF fs.corrupt THEN sync_failed(web.th[t])
                           ELSE [web.th[t] EXCEPT
                                   !.began = TRUE,
                                   !.pc = IF web.th[t].stage = 1 THEN "write" ELSE "get"])
    /\ UNCHANGED <<cid, clock, sync, hm, rk, q, dp, cli>>

\* existing_items = db.get(include=[])
SyncGet ==
    /\ \E t \in Threads :
         /\ web.th[t].pc = "get"
         /\ web' = Step(t, IF StoreGone(fs) THEN sync_failed(web.th[t])
                           ELSE [web.th[t] EXCEPT !.pc = "write"])
    /\ UNCHANGED <<cid, fs, clock, sync, hm, rk, q, dp, cli>>

\* db.add_documents(batch, ids=batch_ids). On a store removed under the
\* open client the write raises or is lost with the removed file.
SyncWrite ==
    /\ \E t \in Threads, raises \in BOOLEAN :
         /\ web.th[t].pc = "write"
         /\ ~StoreGone(fs) => ~raises
         /\ fs' = IF StoreGone(fs) THEN fs
                  ELSE [fs EXCEPT !.recs = add_documents(fs.recs, Uploaded)]
         /\ web' = Step(t, IF raises THEN sync_failed(web.th[t]) ELSE IdleThread)
    /\ UNCHANGED <<cid, clock, sync, hm, rk, q, dp, cli>>

\* shutil.rmtree(CHROMA_PATH) of clear_database, or of reset_database after
\* its backup_database()
ResetRemove ==
    /\ \E t \in Threads :
         /\ web.th[t].pc = "rmtree"
         /\ fs' = IF web.th[t].stage = 2
                  THEN Removed(backup_database(fs, clock, TRUE, 0).fs)
                  ELSE Removed(fs)
         /\ web' = Step(t, [web.th[t] EXCEPT !.pc = "makedirs", !.began = TRUE])
    /\ UNCHANGED <<cid, clock, sync, hm, rk, q, dp, cli>>

\* os.makedirs(CHROMA_PATH, exist_ok=True), with db_version.txt in
\* reset_database
ResetMake ==
    /\ \E t \in Threads :
         /\ web.th[t].pc = "makedirs"
         /\ fs' = [fs EXCEPT !.dir = TRUE,
                             !.version = (@ \/ web.th[t].stage = 2)]
         /\ web' = Step(t, IF web.th[t].req = "reset" /\ ~web.th[t].rebuild
                           THEN IdleThread
                           ELSE [web.th[t] EXCEPT !.pc = "open", !.rebuild = FALSE])
    /\ UNCHANGED <<cid, clock, sync, hm, rk, q, dp, cli>>

\* The except block of query_rag in a handler's thread: a retry while
\* retries <= max_retries, after repair_database when the message names the
\* database.
query_failed(th, named) ==
    IF may_retry(th.retries + 1, WebMaxRetries)
    THEN [th EXCEPT !.retries = @ + 1, !.pc = IF named THEN "repair" ELSE "qopen"]
    ELSE IdleThread

\* db = Chroma(...) in query_rag
QueryOpen ==
    /\ \E t \in Threads, named \in BOOLEAN :
         /\ web.th[t].pc = "qopen"
         /\ ~fs.corrupt => named
         /\ fs' = IF fs.corrupt THEN fs ELSE Opened(fs)
         /\ web' = Step(t, IF fs.corrupt THEN query_failed(web.th[t], named)
                           ELSE [web.th[t] EXCEPT !.pc = "search", !.began = TRUE])
    /\ UNCHANGED <<cid, clock, sync, hm, rk, q, dp, cli>>

\* db.similarity_search_with_score(query_text, k=k_value)
QuerySearch ==
    /\ \E t \in Threads, named \in BOOLEAN :
         /\ web.th[t].pc = "search"
         /\ ~StoreGone(fs) => named
         /\ web' = Step(t, IF StoreGone(fs) THEN query_failed(web.th[t], named)
                           ELSE IdleThread)
    /\ UNCHANGED <<cid, fs, clock, sync, hm, rk, q, dp, cli>>

\* repair_database() before the retry
QueryRepair ==
    /\ \E t \in Threads, o \in RepairOracles :
         /\ web.th[t].pc = "repair"
         /\ NoFault(o) /\ RepairReads(fs, o)
         /\ fs' = repair_database(fs, clock, o).fs
         /\ web' = Step(t, [web.th[t] EXCEPT !.pc = "qopen"])
    /\ UNCHANGED <<cid, clock, sync, hm, rk, q, dp, cli>>

WebInit ==
    /\ web = [th |-> [t \in Threads |-> IdleThread], served |-> 0,
              during_reset |-> FALSE, interleaved |-> FALSE]
    /\ fs \in {NoStore, HealthyStore}
    /\ clock = 0 /\ hm = IdleHm /\ cid = IdleCid /\ sync = None /\ rk = None
    /\ q = None /\ dp = None /\ cli = None

WebNext ==
    \/ Request
    \/ SyncOpen \/ SyncGet \/ SyncWrite
    \/ ResetRemove \/ ResetMake
    \/ QueryOpen \/ QuerySearch \/ QueryRepair

SpecWeb == WebInit /\ [][WebNext]_vars

\* C17 as stated: no step of another handler on the store falls between the
\* rmtree and the makedirs of a reset, and no two handlers that change the
\* store interleave their steps.
C17_ResetExclusive == ~web.during_reset /\ ~web.interleaved

(***************************************************************************)
(* medical_document_processor.py: calculate_clinical_importance            *)
(*                                                                         *)
(* Scores are kept in ten-thousandths (1.0 is 10000) up to the final       *)
(* round(importance, 2), whose result is kept in hundredths. The text is   *)
(* kept as what the function reads of it: the number of its tokens and the *)
(* numbers of matches of each pattern.                                     *)
(***************************************************************************)
MaxTermCount == 1     \* most terms of one kind extracted from a chunk

TokenCounts   == {0, 10, 400}     \* len(content.split())
KeywordCounts == {0, 2, 6}        \* critical keywords found
WarningCounts == {0, 2, 6}        \* sum(2 for phrase in warning_phrases if ...)
StudyCounts   == {0, 3, 7}        \* study references found
DosageCounts  == {0, 5}           \* dosage patterns found

Max(a, b) == IF a >= b THEN a ELSE b

\* len(diseases) * 1.0 + len(medications) * 1.2 + len(procedures) * 1.3
\* + len(lab_tests) * 1.1, in tenths
weighted_term_count(diseases, medications, procedures, lab_tests) ==
    diseases * 10 + medications * 12 + procedures * 13 + lab_tests * 11

\* 0.3 * min(2.0, term_density / 2) with term_density = weighted_term_count
\* / (total_tokens / 100)
density_bonus(weighted, total_tokens) ==
    IF weighted > 0 THEN Min(6000, (15000 * weighted) \div total_tokens) ELSE 0

\* A plausible slip: the cap is left out.
cap_importance_none(importance) == importance

\* importance = max(0.1, min(2.0, importance))
cap_importance(importance) == Max(1000, Min(20000, importance))

\* round(importance, 2), in hundredths
round2(importance) == (importance + 50) \div 100

\* calculate_clinical_importance on the input x; x.error: an exception is
\* raised inside the try block.
calculate_clinical_importance(x) ==
    IF x.error THEN 100
    ELSE IF x.tokens = 0 THEN 100
    ELSE LET weighted == weighted_term_count(x.diseases, x.medications,
                                             x.procedures, x.lab_tests)
             raw == 10000
                    + density_bonus(weighted, x.tokens)
                    + (IF x.critical > 0 THEN Min(5000, 1000 * x.critical) ELSE 0)
                    + (IF x.warning > 0 THEN Min(6000, 1500 * x.warning) ELSE 0)
                    + (IF x.guideline THEN 3000 ELSE 0)
                    + (IF x.studies > 0 THEN Min(3000, 500 * x.studies) ELSE 0)
                    + (IF x.dosage > 0 THEN Min(4000, 1000 * x.dosage) ELSE 0)
                    + (IF x.diagnostic THEN 2500 ELSE 0)
         IN  round2(cap_importance(raw))

ImportanceInputs ==
    [diseases : 0..MaxTermCount, medications : 0..MaxTermCount,
     procedures : 0..MaxTermCount, lab_tests : 0..MaxTermCount,
     tokens : TokenCounts, critical : KeywordCounts, warning : WarningCounts,
     guideline : BOOLEAN, studies : StudyCounts, dosage : DosageCounts,
     diagnostic : BOOLEAN, error : BOOLEAN]

\* No token, no match: a text without tokens matches no pattern.
ImportanceInput(x) ==
    x.tokens = 0 =>
        /\ x.critical = 0 /\ x.warning = 0 /\ x.studies = 0 /\ x.dosage = 0
        /\ ~x.guideline /\ ~x.diagnostic

\* calculate_clinical_importance(...)
Importance ==
    /\ ~dp.done
    /\ dp' = [dp EXCEPT !.done = TRUE,
                        !.importance = calculate_clinical_importance(dp.x)]
    /\ UNCHANGED <<cid, fs, clock, sync, hm, rk, q, web, cli>>

ImportanceInit ==
    /\ dp \in {[x |-> x, done |-> FALSE, importance |-> 0] :
                  x \in {y \in ImportanceInputs : ImportanceInput(y)}}
    /\ fs = NoStore /\ clock = 0 /\ hm = IdleHm /\ cid = IdleCid /\ sync = None
    /\ rk = None /\ q = None /\ web = None /\ cli = None

ImportanceNext == Importance

SpecImportance == ImportanceInit /\ [][ImportanceNext]_vars

\* C19: whatever the extracted terms and the text (a text without tokens
\* and the error fallback included), calculate_clinical_importance returns a
\* value from 0.1 to 2.0, both included.
C19_ImportanceBounds ==
    dp.done => (10 <= dp.importance /\ dp.importance <= 200)

\* The additions sum to more than the cap can take: 2.0 is returned.
C19_Witness ==
    /\ dp.done /\ ~dp.x.error /\ dp.x.tokens > 0
    /\ dp.x.critical = 6 /\ dp.x.warning = 6 /\ dp.x.guideline /\ dp.x.diagnostic
    /\ dp.importance = 200

(***************************************************************************)
(* medical_document_processor.py: process_file and the document cache      *)
(*                                                                         *)
(* dp.files maps a path to the file's modification time and to the number  *)
(* of chunks its text splits into; dp.cache maps a cache file name to the  *)
(* JSON text in it ("none": no such cache file, "truncated": a dump that   *)
(* broke off); dp.earlier keeps, per path, the last process_file call that *)
(* returned; dp.last is the last call.                                     *)
(***************************************************************************)
MaxFileChunks == 2    \* most chunks one file splits into
MaxCacheClock == 4    \* process_file calls and file changes in one run

Paths == {"a.pdf", "b.txt"}

\* The Python types of the metadata values a chunk carries: what
\* load_document puts into page.metadata and split_document adds.
MetadataTypes == {"str", "int", "float", "bool", "NoneType", "list", "dict"}

\* json.dump followed by json.load on a value of a Python type: a tuple
\* comes back as a list, everything else JSON can write as itself.
json_type(t) == IF t = "tuple" THEN "list" ELSE t

\* json.dump raises TypeError on a set and on other objects.
json_serializable(t) == t \in MetadataTypes \cup {"tuple"}

\* _generate_cache_filename: the name is made of the basename and of the md5
\* of "path:mtime"; two different pairs are taken to give different names.
generate_cache_filename(file_path, mod_time) == <<file_path, mod_time>>

\* load_document then split_document on a file of n chunks at time now:
\* every chunk carries its source, its index and the processing_date.
load_and_split(file_path, n, now) ==
    [i \in 1..n |-> [page_content |-> <<file_path, i>>,
                     metadata |-> [source |-> file_path, chunk_index |-> i - 1,
                                   total_chunks |-> n, processing_date |-> now,
                                   types |-> MetadataTypes]]]

\* _save_to_cache: [{"page_content": ..., "metadata": ...}] through json.dump
serialize(chunks) ==
    [i \in 1..Len(chunks) |->
        [page_content |-> chunks[i].page_content,
         metadata |-> [chunks[i].metadata EXCEPT
                          !.types = {json_type(t) : t \in @}]]]

\* Optional[List[Document]]: None, or a list of chunks
NoChunks == [none |-> TRUE, chunks |-> <<>>]
Some(chunks) == [none |-> FALSE, chunks |-> chunks]

\* if cached_chunks: -- None and the empty list are both false
is_hit(cached_chunks) == ~cached_chunks.none /\ cached_chunks.chunks # <<>>

NoCacheFile == [state |-> "none", chunks |-> <<>>]
Truncated == [state |-> "truncated", chunks |-> <<>>]

\* _load_from_cache: None without caching, without the cache file and when
\* json.load fails; the chunks of the file otherwise.
load_from_cache(d, use_cache, file_path, readOk) ==
    LET cache_file == generate_cache_filename(file_path, d.files[file_path].mtime)
    IN  IF ~use_cache THEN NoChunks
        ELSE IF d.cache[cache_file].state = "none" THEN NoChunks
        ELSE IF d.cache[cache_file].state = "truncated" \/ ~readOk THEN NoChunks
        ELSE Some(d.cache[cache_file].chunks)

\* _save_to_cache: nothing without caching; a failed dump is logged only and
\* leaves what open(cache_file, 'w') and the dump wrote so far.
save_to_cache(d, use_cache, file_path, chunks, writeOk) ==
    LET cache_file == generate_cache_filename(file_path, d.files[file_path].mtime)
        serializable == \A i \in 1..Len(chunks) :
                           \A t \in chunks[i].metadata.types : json_serializable(t)
    IN  IF ~use_cache THEN d.cache
        ELSE IF writeOk /\ serializable
             THEN [d.cache EXCEPT ![cache_file] =
                                     [state |-> "written", chunks |-> serialize(chunks)]]
             ELSE [d.cache EXCEPT ![cache_file] = Truncated]

\* The outcome of process_file once it is known what the cache gave.
process_result(d, use_cache, file_path, now, cached_chunks, o) ==
    IF use_cache /\ is_hit(cached_chunks)
    THEN [cache |-> d.cache, raised |-> FALSE, chunks |-> cached_chunks.chunks,
          loaded |-> FALSE, split |-> FALSE, fault |-> ~o.readOk]
    ELSE IF ~o.loadOk
    THEN [cache |-> d.cache, raised |-> TRUE, chunks |-> <<>>,
          loaded |-> TRUE, split |-> FALSE, fault |-> TRUE]
    ELSE LET chunks == load_and_split(file_path, d.files[file_path].n, now)
         IN  [cache |-> save_to_cache(d, use_cache, file_path, chunks, o.writeOk),
              raised |-> FALSE, chunks |-> chunks,
              loaded |-> TRUE, split |-> TRUE,
              fault |-> ~o.readOk \/ ~o.writeOk]

\* process_file(file_path) by a processor made with use_cache
process_file(d, use_cache, file_path, now, o) ==
    process_result(d, use_cache, file_path, now,
                   load_from_cache(d, use_cache, file_path, o.readOk), o)

CacheOracles == [readOk : BOOLEAN, loadOk : BOOLEAN, writeOk : BOOLEAN]

\* An oracle says only what the call reads of it.
CacheReads(d, use_cache, file_path, o) ==
    LET cache_file == generate_cache_filename(file_path, d.files[file_path].mtime)
        reads == use_cache /\ d.cache[cache_file].state = "written"
        cached == load_from_cache(d, use_cache, file_path, o.readOk)
        hit == use_cache /\ is_hit(cached)
    IN  /\ (~reads => o.readOk)
        /\ (hit => o.loadOk)
        /\ ((hit \/ ~o.loadOk \/ ~use_cache) => o.writeOk)

CacheKeys == {generate_cache_filename(p, t) : p \in Paths, t \in 0..(MaxCacheClock + 1)}

NoEarlier == [called |-> FALSE, mtime |-> 0, chunks |-> <<>>,
              use_cache |-> FALSE, fault |-> FALSE]

NoCall == [called |-> FALSE, path |-> "", use_cache |-> FALSE, raised |-> FALSE,
           chunks |-> <<>>, loaded |-> FALSE, split |-> FALSE, fault |-> FALSE,
           before |-> NoEarlier, mtime |-> 0]

\* process_medical_document(file_path, use_cache=...)
ProcessFile ==
    /\ dp.now < MaxCacheClock
    /\ \E file_path \in Paths, use_cache \in BOOLEAN, o \in CacheOracles :
        /\ dp.files[file_path].exists
        /\ CacheReads(dp, use_cache, file_path, o)
        /\ LET r == process_file(dp, use_cache, file_path, dp.now + 1, o)
               before == dp.earlier[file_path]
           IN  dp' = [dp EXCEPT
                   !.now = dp.now + 1,
                   !.cache = r.cache,
                   !.earlier[file_path] =
                       IF r.raised THEN @
                       ELSE [called |-> TRUE, mtime |-> dp.files[file_path].mtime,
                             chunks |-> r.chunks, use_cache |-> use_cache,
                             fault |-> r.fault],
                   !.last = [called |-> TRUE, path |-> file_path, use_cache |-> use_cache,
                             raised |-> r.raised, chunks |-> r.chunks,
                             loaded |-> r.loaded, split |-> r.split,
                             fault |-> r.fault, before |-> before,
                             mtime |-> dp.files[file_path].mtime]]
    /\ UNCHANGED <<cid, fs, clock, sync, hm, rk, q, web, cli>>

\* The file is written again: a new modification time, a new text.
ModifyFile ==
    /\ dp.now < MaxCacheClock
    /\ \E file_path \in Paths, n \in 0..MaxFileChunks :
        dp' = [dp EXCEPT !.now = dp.now + 1,
                         !.files[file_path] =
                             [exists |-> TRUE, mtime |-> dp.now + 1, n |-> n],
                         !.last = NoCall]
    /\ UNCHANGED <<cid, fs, clock, sync, hm, rk, q, web, cli>>

CacheInit ==
    /\ dp \in {[now |-> 0,
                files |-> [p \in Paths |-> [exists |-> p \in present,
                                            mtime |-> 0, n |-> ns[p]]],
                cache |-> [k \in CacheKeys |-> NoCacheFile],
                earlier |-> [p \in Paths |-> NoEarlier],
                last |-> NoCall] :
              present \in SUBSET Paths, ns \in [Paths -> 0..MaxFileChunks]}
    /\ fs = NoStore /\ clock = 0 /\ hm = IdleHm /\ cid = IdleCid /\ sync = None
    /\ rk = None /\ q = None /\ web = None /\ cli = None

CacheNext == ProcessFile \/ ModifyFile

SpecCache == CacheInit /\ [][CacheNext]_vars

\* The last call is a call with caching on a file whose path and
\* modification time are those of an earlier call with caching that
\* returned, no file operation having failed in either.
RepeatedCall ==
    /\ dp.last.called /\ dp.last.use_cache /\ ~dp.last.fault
    /\ dp.last.before.called
    /\ dp.last.before.use_cache /\ ~dp.last.before.fault
    /\ dp.last.before.mtime = dp.last.mtime

\* C20: process_file with caching, on a file whose path and modification
\* time are unchanged since an earlier successful process_file call, returns
\* exactly the chunks of that call (text and metadata) and performs neither
\* load_document nor split_document.
C20_CacheHit ==
    RepeatedCall =>
        /\ ~dp.last.raised
        /\ dp.last.chunks = dp.last.before.chunks
        /\ ~dp.last.loaded /\ ~dp.last.split

\* query_rag is one sequential call: a pass that can be made is made and an
\* exception that is raised is handled, every call inside them returning or
\* raising.
SpecQueryLive == SpecQuery /\ WF_vars(Attempt) /\ WF_vars(Handle)

\* query_rag has given its caller an answer, the no-results message or the
\* terminal error.
Ended == q.pc \in {"returned", "raised"}

\* What the caller got is one of the three, and nothing before the end.
OneOutcome ==
    /\ q.pc = "returned" => q.outcome \in {"answer", "no_results"}
    /\ q.pc = "raised" => q.outcome = "error"
    /\ ~Ended => q.outcome = "none"
    /\ q.outcome = "answer" <=> (q.log # <<>> /\ Last(q.log) = "answer")
    /\ q.outcome = "no_results" <=> (q.log # <<>> /\ Last(q.log) = "no_results")
    /\ q.outcome = "error" <=> (q.log # <<>> /\ Last(q.log) = "raise")

\* The while loop makes at most max_retries + 1 passes and the relaxation
\* loop of a pass at most five rounds.
BoundedLoops ==
    /\ Count(q.log, "attempt") <= q.max_retries + 1
    /\ q.retries <= q.max_retries + 1
    /\ q.steps <= 5

\* C29: every call of query_rag with max_retries >= 0 whose calls to the
\* store, to repair_database and to the model return or raise ends, and
\* ends in exactly one of a formatted answer, the no-results message and the
\* terminal error; the retry loop and the relaxation loop make a bounded
\* number of rounds.
C29_QueryTerminates ==
    /\ <>Ended
    /\ [](OneOutcome /\ BoundedLoops)

\* A call that ended after a failed pass and a retry whose relaxation loop
\* made its five rounds.
C29_Witness ==
    /\ Ended /\ q.retries >= 1 /\ q.steps = 5
    /\ Count(q.log, "attempt") = q.retries + 1

(***************************************************************************)
(* query_data.py: main, the command line                                   *)
(*                                                                         *)
(* One run of the command line is one action up to the point where it      *)
(* hands over to query_rag, whose passes follow as the actions Attempt and *)
(* Handle. cli keeps the last run: its arguments, the disk it met, the     *)
(* calls it made on the health manager in their order, the seconds that    *)
(* passed between its own backup and what followed, and whether it went on *)
(* to query_rag.                                                           *)
(***************************************************************************)
MaxCliClock == 6      \* the last second of the clock
MaxCliRuns  == 1      \* runs of the command line in one behaviour

CliMaxRetries == 3    \* query_rag(query_text, max_retries=3, ...)
PastBackups   == KeepBackups    \* snapshots of earlier seconds a run may meet

Args ==
    [backup : BOOLEAN, reset_db : BOOLEAN, verify_db : BOOLEAN,
     force_repair : BOOLEAN, query_text : BOOLEAN, clinical_mode : BOOLEAN]

\* A call of the run as the log keeps it: the function, what it returned,
\* and of the disk before and after it: whether the store existed, whether
\* the snapshot name of the second was taken, whether a snapshot was made
\* and holds the records met, how many snapshots were evicted, whether the
\* snapshots and the records are as before, whether the store directory was
\* deleted; for reset_database, what its backup_database call returned and
\* whether one of its two removals could succeed.
NoCallRec ==
    [fn |-> "none", ret |-> FALSE, quiet |-> FALSE, existed |-> FALSE,
     taken |-> FALSE, made |-> FALSE, saved |-> FALSE, evicted |-> 0,
     keptBackups |-> TRUE, keptRecs |-> TRUE, deleted |-> FALSE,
     backup |-> FALSE, backupRet |-> FALSE, removable |-> FALSE]

BackupCall(f, now, b) ==
    [NoCallRec EXCEPT
       !.fn = "backup", !.ret = b.ret, !.existed = f.dir,
       !.taken = (\E s \in f.backups : s.ts = now),
       !.made = b.made,
       !.saved = ([ts |-> now, content |-> Content(f)] \in b.fs.backups),
       !.evicted = Cardinality(b.evicted),
       !.keptBackups = (b.fs.backups = f.backups)]

ResetCall(f, now, quiet, r) ==
    [NoCallRec EXCEPT
       !.fn = "reset", !.quiet = quiet, !.existed = f.dir,
       !.taken = (\E s \in f.backups : s.ts = now),
       !.made = r.made,
       !.saved = (r.made /\ [ts |-> now, content |-> Content(f)] \in r.fs.backups),
       !.keptBackups = (r.fs.backups = f.backups),
       !.keptRecs = (r.fs.recs = f.recs),
       !.deleted = r.deleted,
       !.backup = r.backupCalled, !.backupRet = r.backupRet,
       !.removable = r.removable]

VerifyCall(f, v) ==
    [NoCallRec EXCEPT !.fn = "verify", !.ret = v, !.existed = f.dir]

RepairCall(f, r) ==
    [NoCallRec EXCEPT
       !.fn = "repair", !.ret = r.ret, !.existed = f.dir,
       !.keptBackups = (r.fs.backups = f.backups),
       !.keptRecs = (r.fs.recs = f.recs),
       !.deleted = r.deleted, !.backup = r.backup]

\* reset_database(quiet) as the log shows it: the backup_database call it
\* makes, then the call itself.
reset_logged(f, now, quiet, ro) ==
    [fs    |-> reset_database(f, quiet, now, ro).fs,
     calls |-> (IF backs_up(f.dir, quiet)
                THEN <<BackupCall(f, now, backup_database(f, now, ro.copyOk, ro.rmFail))>>
                ELSE <<>>)
               \o <<ResetCall(f, now, quiet, reset_database(f, quiet, now, ro))>>]

\* if args.backup and os.path.exists(CHROMA_PATH): backup_database()
main_backup(f, now, args, copyOk, rmFail) ==
    IF args.backup /\ f.dir
    THEN [fs    |-> backup_database(f, now, copyOk, rmFail).fs,
          calls |-> <<BackupCall(f, now, backup_database(f, now, copyOk, rmFail))>>]
    ELSE [fs |-> f, calls |-> <<>>]

\* A plausible slip: a failed verification is always followed by a repair.
repairs_always(force_repair) == TRUE

\* if args.force_repair: ... repair_database()       (the --verify-db branch)
repairs(force_repair) == force_repair

\* The --verify-db branch: verify_database(), and repair_database() when it
\* fails and --force-repair is given. v is what verify_database returns and
\* rep what repair_database gives.
main_verify(f, args, v, rep) ==
    IF ~v /\ repairs(args.force_repair)
    THEN [fs |-> rep.fs, calls |-> <<VerifyCall(f, v), RepairCall(f, rep)>>,
          query |-> FALSE]
    ELSE [fs |-> f, calls |-> <<VerifyCall(f, v)>>, query |-> FALSE]

\* The query branch up to query_rag: the silent verify_database, then on a
\* failure repair_database (with --force-repair or auto_repair configured)
\* and reset_database when that fails. rst is what that reset gives.
main_query(f, args, v, auto_repair, rep, rst) ==
    IF ~args.query_text
    THEN [fs |-> f, calls |-> <<>>, query |-> FALSE]
    ELSE IF v
    THEN [fs |-> f, calls |-> <<VerifyCall(f, v)>>, query |-> TRUE]
    ELSE IF ~(args.force_repair \/ auto_repair)
    THEN [fs |-> f, calls |-> <<VerifyCall(f, v)>>, query |-> FALSE]
    ELSE IF rep.ret
    THEN [fs |-> rep.fs, calls |-> <<VerifyCall(f, v), RepairCall(f, rep)>>,
          query |-> TRUE]
    ELSE [fs |-> rst.fs,
          calls |-> <<VerifyCall(f, v), RepairCall(f, rep)>> \o rst.calls,
          query |-> FALSE]

\* A reset and a repair that meet nothing, for the runs that make none.
ResetOracle0 ==
    [copyOk |-> TRUE, rmFail |-> 0, rmtreeOk |-> TRUE, altOk |-> TRUE, mkOk |-> TRUE]
NoRepairResult ==
    [fs |-> NoStore, ret |-> TRUE, verifies |-> <<>>, reset |-> FALSE,
     backup |-> FALSE, deleted |-> FALSE]

\* What the environment may do during a run: the first backup's copy and
\* eviction, the seconds that pass after it, an outside failure of the
\* verify probe, the auto_repair entry of rag_config.json, and what the
\* reset and the repair meet.
CliOracles ==
    [copyOk1 : BOOLEAN, rmFail1 : 0..1, tick : 0..1, probeOk : BOOLEAN,
     auto_repair : BOOLEAN]

\* The outcomes of a repair_database call on disk f, each drawn once.
RepairsOn(f) == {rep \in RepairOracles : RepairReads(f, rep)}

\* The outcomes of a reset_database() call on disk f, each drawn once.
ResetsOn(f) == {ro \in ResetOracles : ResetReads(f, FALSE, ro) /\ ro.rmFail <= 1}

\* What a run leaves: the disk, the clock, the record of the run.
Ran(args, o, calls, query) ==
    [cli EXCEPT !.runs = cli.runs + 1, !.args = args, !.before = fs,
                !.tick = o.tick, !.calls = calls, !.query = query]

\* main() with the --reset-db flag
MainReset(args, o) ==
    /\ args.reset_db
    /\ o.probeOk /\ ~o.auto_repair
    /\ LET b == main_backup(fs, clock, args, o.copyOk1, o.rmFail1)
       IN  \E ro \in ResetsOn(b.fs) :
             LET r == reset_logged(b.fs, clock + o.tick, FALSE, ro)
             IN  /\ fs' = r.fs
                 /\ cli' = Ran(args, o, b.calls \o r.calls, FALSE)
    /\ clock' = clock + o.tick
    /\ UNCHANGED q

\* main() with --verify-db and without --reset-db
MainVerify(args, o) ==
    /\ ~args.reset_db /\ args.verify_db
    /\ ~o.auto_repair
    /\ LET b == main_backup(fs, clock, args, o.copyOk1, o.rmFail1)
           v == verify_call(b.fs, IF o.probeOk THEN "ok" ELSE "search")
       IN  /\ ~o.probeOk => verify_database(b.fs)
           /\ \E rep \in (IF ~v /\ repairs(args.force_repair)
                           THEN RepairsOn(b.fs) ELSE {NoRepair}) :
                 LET r == main_verify(b.fs, args, v,
                                      repair_database(b.fs, clock + o.tick, rep))
                 IN  /\ fs' = r.fs
                     /\ cli' = Ran(args, o, b.calls \o r.calls, FALSE)
    /\ clock' = clock + o.tick
    /\ UNCHANGED q

\* The rest of the query branch once the repair is known.
MainQueryEnd(args, o, b, v, rp) ==
    \E ro \in (IF ~rp.ret THEN ResetsOn(rp.fs) ELSE {ResetOracle0}) :
        LET r == main_query(b.fs, args, v, o.auto_repair, rp,
                            reset_logged(rp.fs, clock + o.tick, FALSE, ro))
        IN  /\ fs' = r.fs
            /\ cli' = Ran(args, o, b.calls \o r.calls, r.query)
            /\ q' = IF r.query
                    THEN IdleQ(CliMaxRetries, args.clinical_mode, FALSE)
                    ELSE q

\* main() without --reset-db and without --verify-db
MainQuery(args, o) ==
    /\ ~args.reset_db /\ ~args.verify_db
    /\ LET b == main_backup(fs, clock, args, o.copyOk1, o.rmFail1)
           v == verify_call(b.fs, IF o.probeOk THEN "ok" ELSE "search")
           repairing == args.query_text /\ ~v /\ (args.force_repair \/ o.auto_repair)
       IN  /\ ~o.probeOk => (args.query_text /\ verify_database(b.fs))
           /\ o.auto_repair => (args.query_text /\ ~v /\ ~args.force_repair)
           /\ IF repairing
              THEN \E rep \in RepairsOn(b.fs) :
                     MainQueryEnd(args, o, b, v,
                                  repair_database(b.fs, clock + o.tick, rep))
              ELSE MainQueryEnd(args, o, b, v, [NoRepairResult EXCEPT !.fs = b.fs])
    /\ clock' = clock + o.tick

\* python query_data.py [query_text] [--backup] [--reset-db] [--verify-db]
\*                      [--force-repair] [--clinical-mode]
Main ==
    /\ cli.runs < MaxCliRuns
    /\ q.pc \in {"idle", "returned", "raised"}
    /\ \E args \in Args, o \in CliOracles :
         /\ clock + o.tick <= MaxCliClock
         /\ ~(args.backup /\ fs.dir) => (o.copyOk1 /\ o.rmFail1 = 0 /\ o.tick = 0)
         /\ ~args.query_text => ~args.clinical_mode
         /\ \/ MainReset(args, o)
            \/ MainVerify(args, o)
            \/ MainQuery(args, o)
    /\ UNCHANGED <<cid, sync, hm, rk, web, dp>>

NoArgs ==
    [backup |-> FALSE, reset_db |-> FALSE, verify_db |-> FALSE,
     force_repair |-> FALSE, query_text |-> FALSE, clinical_mode |-> FALSE]

\* The store the command line works on: two records within reach of the
\* query.
CliStore ==
    [NoStore EXCEPT !.dir = TRUE, !.sqlite = TRUE,
                    !.recs = {Doc("m.pdf:1:0", "plain", 2, 40),
                              Doc("m.pdf:2:0", "urgent referral", NoImportance, 30)}]

\* The snapshots of the seconds before the clock starts.
Past(n) == {[ts |-> t, content |-> CliStore.recs] : t \in 0..(n - 1)}

CliInit ==
    /\ fs \in {[f EXCEPT !.backups = Past(n)] :
                 f \in {NoStore, CliStore, [CliStore EXCEPT !.corrupt = TRUE]},
                 n \in {0, PastBackups}}
    /\ clock = PastBackups
    /\ cli = [runs |-> 0, args |-> NoArgs, before |-> NoStore, tick |-> 0,
              calls |-> <<>>, query |-> FALSE]
    /\ q = [IdleQ(CliMaxRetries, FALSE, FALSE) EXCEPT !.pc = "idle"]
    /\ hm = IdleHm /\ cid = IdleCid /\ sync = None /\ rk = None
    /\ web = None /\ dp = None

CliNext == Main \/ Attempt \/ Handle \/ Tick(MaxCliClock)

SpecCli == CliInit /\ [][CliNext]_vars

\* The run the record cli describes has taken place.
HasRun == cli.runs > 0

\* C21: a run with --verify-db and without --force-repair, --backup and
\* --reset-db leaves the records of the store and the snapshots as it met
\* them whatever verify_database returns, calls verify_database and nothing
\* else (no repair_database, no reset_database), and does not go on to
\* query_rag even when a query text is given.
C21_VerifyOnlyReadOnly ==
    (/\ HasRun
     /\ cli.args.verify_db /\ ~cli.args.force_repair
     /\ ~cli.args.backup /\ ~cli.args.reset_db)
    => /\ fs.recs = cli.before.recs
       /\ fs.backups = cli.before.backups
       /\ fs.dir = cli.before.dir
       /\ \A i \in 1..Len(cli.calls) : cli.calls[i].fn = "verify"
       /\ ~cli.query

\* A verify-only run with a query text on a damaged store that holds records
\* and has snapshots: verify_database returned False and nothing followed.
C21_Witness ==
    /\ HasRun
    /\ cli.args.verify_db /\ ~cli.args.force_repair
    /\ ~cli.args.backup /\ ~cli.args.reset_db /\ cli.args.query_text
    /\ cli.before.corrupt /\ cli.before.recs # {} /\ cli.before.backups # {}
    /\ Len(cli.calls) = 1 /\ cli.calls[1].fn = "verify" /\ ~cli.calls[1].ret

\* The non-quiet reset_database calls on an existing store whose
\* backup_database returned False.
UnbackedReset(c) ==
    c.fn = "reset" /\ ~c.quiet /\ c.existed /\ c.backup /\ ~c.backupRet

C30_SameSecondCollision ==
    /\ \A i \in 1..Len(cli.calls) :
          LET c == cli.calls[i]
          IN  (c.fn = "backup" /\ c.taken)
              => ~c.ret /\ ~c.made /\ c.evicted = 0 /\ c.keptBackups
    /\ (/\ HasRun /\ cli.args.backup /\ cli.args.reset_db /\ cli.before.dir
        /\ cli.tick = 0 /\ cli.calls[1].made)
       => /\ Len(cli.calls) = 3
          /\ cli.calls[2].fn = "backup" /\ cli.calls[2].taken /\ ~cli.calls[2].ret
          /\ cli.calls[3].fn = "reset" /\ ~cli.calls[3].backupRet

\* A run with --backup and --reset-db whose second backup_database met the
\* snapshot the first had just made, and whose reset deleted the store.
C30_Witness ==
    /\ HasRun /\ cli.args.backup /\ cli.args.reset_db
    /\ Len(cli.calls) = 3
    /\ cli.calls[1].fn = "backup" /\ cli.calls[1].ret
    /\ cli.calls[2].fn = "backup" /\ cli.calls[2].taken /\ ~cli.calls[2].ret
    /\ cli.calls[3].deleted

====
